---- MODULE Spec2Model ----
(***************************************************************************)
(* Verification model of the ranked-stats pipeline:                        *)
(*   EventsReader (bit cursor + per-player event decoder),                 *)
(*   process_ranked_match / get_relevant_events (fusion + roster replay).  *)
(* Each specification below exercises one layer of the program.            *)
(***************************************************************************)
EXTENDS Integers, Sequences, FiniteSets, TLC

VARIABLES
    data,       \* EventsReader.data : the decoded byte buffer
    pos,        \* EventsReader.pos  : bit position of the cursor
    pc,         \* control position of the running operation
    op,         \* cursor harness: name of the last cursor read performed
    ret,        \* cursor harness: value returned by the last read
    pos0,       \* cursor harness: cursor position before the last read
    oob,        \* TRUE once a read indexed data outside its bounds (a panic)
    data2,      \* footer harness: buffer of a second, independent reader
    pos2,       \* footer harness: cursor of the second reader
    ret2,       \* footer harness: value returned by the second reader
    start_team, \* player_events argument `team`
    duration,   \* player_events argument `duration`
    team,       \* player_events local `team`
    time,       \* player_events local `time`
    flag,       \* player_events local `flag`
    powerups,   \* player_events local `powerups`
    preventing, \* player_events local `preventing`
    buttoning,  \* player_events local `buttoning`
    blocking,   \* player_events local `blocking`
    events,     \* player_events local `events`
    calls,      \* number of player_events calls made on this reader
    first_events, \* the sequence returned by the first call
    match_log,  \* the MatchLog handed to the match pipeline
    pipeline,   \* "event_processor" (process_ranked_match) or "ranked_ratings" (get_relevant_events)
    collected,  \* relevant_events as pushed, before the sort
    relevant_events, \* the fused timeline
    red_team,   \* roster of player indices
    blue_team,  \* roster of player indices
    idx,        \* 1-based position of the event loop in relevant_events
    returned,   \* "pending", "None" or "Some": what process_ranked_match returned
    panicked,   \* TRUE once an expect() failed
    cap_diff, garbage_time_cap_diff,
    red_fc, blue_fc, red_grab_time, blue_grab_time,   \* Option values: <<>> or <<v>>
    player_stats, \* one stat record per player
    records,    \* RecordsCollector: [stats, red_grab_time, blue_grab_time] of the full-game
                \* pass, and under first8 the same three of the first-8-minutes pass
    layout,     \* map_layout local `layout`, as runs [tile, count] of equal tiles
    width       \* map_layout argument `width`

readerVars == <<data, pos>>
harnessVars == <<op, ret, pos0, oob>>
footerVars == <<data2, pos2, ret2>>
decodeVars == <<start_team, duration, team, time, flag, powerups,
                preventing, buttoning, blocking, events, calls, first_events>>
rosterVars == <<red_team, blue_team>>
engineVars == <<cap_diff, garbage_time_cap_diff, red_fc, blue_fc,
                red_grab_time, blue_grab_time, player_stats, records>>
matchVars == <<match_log, pipeline, collected, relevant_events, red_team, blue_team,
               idx, returned, panicked, cap_diff, garbage_time_cap_diff, red_fc, blue_fc,
               red_grab_time, blue_grab_time, player_stats, records, layout, width>>
vars == <<data, pos, pc, op, ret, pos0, oob, data2, pos2, ret2,
          start_team, duration, team, time, flag, powerups,
          preventing, buttoning, blocking, events, calls, first_events,
          match_log, pipeline, collected, relevant_events, red_team, blue_team,
          idx, returned, panicked, cap_diff, garbage_time_cap_diff, red_fc, blue_fc,
          red_grab_time, blue_grab_time, player_stats, records, layout, width>>
layoutVars == <<layout, width>>

(***************************************************************************)
(* Bounds                                                                  *)
(***************************************************************************)
MaxCursorBytes == 2
MaxFixedBits == 3
MaxDecodeBytes == 4
MaxCalls == 2
MaxFooterBytes == 5
MaxFreePlayers == 2
MaxEngineEvents == 2
MaxLead == 4
MaxPostEvents == 4
MaxLayoutBytes == 2
MaxLayoutRuns == 4

\* byte values the cursor harness builds its buffers from
CursorBytes == {0, 255, 165, 126}
\* byte values the decoder harness builds its buffers from
DecodeBytes == {0, 8, 128, 192, 132, 180, 188}
\* match durations handed to player_events by the decoder harness
DecodeDurations == {100}

RECURSIVE Pow2(_)
Pow2(n) == IF n = 0 THEN 1 ELSE 2 * Pow2(n - 1)

RECURSIVE SeqsUpTo(_, _)
SeqsUpTo(S, n) ==
    IF n = 0 THEN {<<>>}
    ELSE LET shorter == SeqsUpTo(S, n - 1)
         IN shorter \cup {Append(s, b) : s \in {t \in shorter : Len(t) = n - 1}, b \in S}

(***************************************************************************)
(* BitCursor: EventsReader::read_bool / read_fixed / read_tally /          *)
(* read_footer.  Every read returns the value, the new cursor position and *)
(* whether it indexed the buffer out of bounds.                            *)
(***************************************************************************)
events_remaining_le(d, p) == (p \div 8) <= Len(d)

events_remaining(d, p) == (p \div 8) < Len(d)

\* data[i] with Rust's bounds check: -1 stands for the index panic
ByteAt(d, i) == IF i < Len(d) THEN d[i + 1] ELSE -1

BitOfByte_lsb(b, p) == (b \div Pow2(p % 8)) % 2

\* (byte >> (7 - (pos & 7))) & 1
BitOfByte(b, p) == (b \div Pow2(7 - (p % 8))) % 2

read_bool(d, p) ==
    IF events_remaining(d, p)
    THEN LET b == ByteAt(d, p \div 8)
         IN [val |-> (b # -1) /\ (BitOfByte(b, p) = 1),
             pos |-> p + 1,
             oob |-> (b = -1)]
    ELSE [val |-> FALSE, pos |-> p, oob |-> FALSE]

RECURSIVE read_fixed_loop(_, _, _, _, _)
read_fixed_loop(d, p, n, result, o) ==
    IF n = 0 THEN [val |-> result, pos |-> p, oob |-> o]
    ELSE LET b == read_bool(d, p)
         IN read_fixed_loop(d, b.pos, n - 1,
                            2 * result + (IF b.val THEN 1 ELSE 0), o \/ b.oob)

read_fixed(d, p, num_bits) == read_fixed_loop(d, p, num_bits, 0, FALSE)

RECURSIVE read_tally_loop(_, _, _, _)
read_tally_loop(d, p, result, o) ==
    LET b == read_bool(d, p)
    IN IF b.val THEN read_tally_loop(d, b.pos, result + 1, o \/ b.oob)
       ELSE [val |-> result, pos |-> b.pos, oob |-> o \/ b.oob]

read_tally_from1(d, p) == read_tally_loop(d, p, 1, FALSE)

read_tally(d, p) == read_tally_loop(d, p, 0, FALSE)

\* while free < size { minimum += 1 << free; free += 8 }
footer_minimum_zero(free, size) == 0

RECURSIVE footer_minimum(_, _)
footer_minimum(free, size) ==
    IF free < size THEN Pow2(free) + footer_minimum(free + 8, size) ELSE 0

read_footer_nofree(d, p) ==
    LET sel == read_fixed(d, p, 2)
        size == sel.val * 8
        fx == read_fixed(d, sel.pos, size)
    IN [sel |-> sel.val, size |-> size, fixed |-> fx.val,
        minimum |-> footer_minimum(0, size),
        pos |-> fx.pos, oob |-> sel.oob \/ fx.oob]

\* read_footer, returning the selector, the field size, the fixed part and
\* the minimum separately; the decoded value is fixed + minimum.
read_footer(d, p) ==
    LET sel == read_fixed(d, p, 2)
        free == (8 - (sel.pos % 8)) % 8
        size == sel.val * 8 + free      \* (sel << 3) | free, free < 8
        fx == read_fixed(d, sel.pos, size)
    IN [sel |-> sel.val, size |-> size, fixed |-> fx.val,
        minimum |-> footer_minimum(free, size),
        pos |-> fx.pos, oob |-> sel.oob \/ fx.oob]

FooterValue(f) == f.fixed + f.minimum

(***************************************************************************)
(* PlayerEventDecoder: EventsReader::player_events                         *)
(***************************************************************************)
\* Team::from_usize / Flag::from_usize ("Invalid" stands for Option::None)
TeamFromUsize(n) ==
    CASE n = 0 -> "None" [] n = 1 -> "Red" [] n = 2 -> "Blue" [] OTHER -> "Invalid"

FlagFromUsize(n) ==
    CASE n = 0 -> "None" [] n = 1 -> "Opponent" [] n = 2 -> "OpponentPotato"
      [] n = 3 -> "Neutral" [] n = 4 -> "NeutralPotato" [] n = 5 -> "Temporary"
      [] OTHER -> "Invalid"

Teams == {"None", "Red", "Blue"}

\* match (team, self.read_bool()) { ... }
NewTeam(t, dir) ==
    CASE t = "None" /\ ~dir -> "Red"
      [] t = "None" /\ dir -> "Blue"
      [] t = "Red" /\ ~dir -> "Blue"
      [] t = "Blue" /\ ~dir -> "Red"
      [] OTHER -> "None"

HasBit(mask, i) == (mask \div i) % 2 = 1

NoRead(p) == [val |-> FALSE, pos |-> p, oob |-> FALSE]

Stub(k, f, pu) == [event_type |-> k, flag |-> f, powerups |-> pu]

Rep(n, e) == [i \in 1..n |-> e]

GrabQueried_always(fl) == TRUE

\* (flag == Flag::None) && self.read_bool(): the grab bit is read only
\* while no flag is carried
GrabQueried(fl) == fl = "None"

\* first loop over the powerup bits: reads the lost / gained bits
RECURSIVE powerup_read_loop(_, _, _, _, _, _, _)
powerup_read_loop(d, p, i, pu, num_new, gained, lost) ==
    IF i >= 16 THEN [pos |-> p, num_new |-> num_new, gained |-> gained, lost |-> lost]
    ELSE IF HasBit(pu, i)
         THEN LET b == read_bool(d, p)
              IN powerup_read_loop(d, b.pos, 2 * i, pu, num_new, gained,
                                   IF b.val THEN lost + i ELSE lost)
         ELSE IF num_new # 0
              THEN LET b == read_bool(d, p)
                   IN IF b.val
                      THEN powerup_read_loop(d, b.pos, 2 * i, pu, num_new - 1, gained + i, lost)
                      ELSE powerup_read_loop(d, b.pos, 2 * i, pu, num_new, gained, lost)
              ELSE powerup_read_loop(d, p, 2 * i, pu, num_new, gained, lost)

capture_loop_allreal(n, fl, kept, pu, ev) ==
    [ev |-> ev \o Rep(n, Stub("Capture", fl, pu)), flag |-> "None"]

\* while num_captures > 0 { ... }: ev collects the pushed events
RECURSIVE capture_loop(_, _, _, _, _)
capture_loop(n, fl, kept, pu, ev) ==
    IF n = 0 THEN [ev |-> ev, flag |-> fl]
    ELSE IF kept \/ fl = "None"
         THEN capture_loop(n - 1, fl, kept, pu, Append(ev, Stub("FlaglessCapture", fl, pu)))
         ELSE capture_loop(n - 1, "None", TRUE, pu, Append(ev, Stub("Capture", fl, pu)))

\* powerups ^= i
XorBit(pu, i) == IF HasBit(pu, i) THEN pu - i ELSE pu + i

\* powerups |= i
OrBit(pu, i) == IF HasBit(pu, i) THEN pu ELSE pu + i

\* second loop over the powerup bits: emits Powerdown / Powerup
RECURSIVE powerup_emit_loop(_, _, _, _, _, _)
powerup_emit_loop(i, pu, gained, lost, fl, ev) ==
    IF i >= 16 THEN [ev |-> ev, powerups |-> pu]
    ELSE IF HasBit(lost, i)
         THEN powerup_emit_loop(2 * i, XorBit(pu, i), gained, lost, fl,
                                Append(ev, Stub("Powerdown", fl, XorBit(pu, i))))
         ELSE IF HasBit(gained, i)
              THEN powerup_emit_loop(2 * i, OrBit(pu, i), gained, lost, fl,
                                     Append(ev, Stub("Powerup", fl, OrBit(pu, i))))
              ELSE powerup_emit_loop(2 * i, pu, gained, lost, fl, ev)

DropOrPop_pop(popped, fl, pu) ==
    IF popped THEN <<Stub("Pop", fl, pu)>> ELSE <<>>

\* lines 303-310: if pop_occurred { Drop while a flag is carried, else Pop }
DropOrPop(popped, fl, pu) ==
    IF popped
    THEN (IF fl # "None" THEN <<Stub("Drop", fl, pu)>> ELSE <<Stub("Pop", fl, pu)>>)
    ELSE <<>>

ToggleEvent_start(toggled, active, startKind, stopKind, fl, pu) ==
    IF toggled THEN <<Stub(startKind, fl, pu)>> ELSE <<>>

ToggleEvent(toggled, active, startKind, stopKind, fl, pu) ==
    IF toggled THEN <<Stub(IF active THEN stopKind ELSE startKind, fl, pu)>> ELSE <<>>

\* the events of one tick get the tick's time and the player's team
Stamp(stubs, t, tm) ==
    [i \in 1..Len(stubs) |->
        [event_type |-> stubs[i].event_type, time |-> t, flag |-> stubs[i].flag,
         powerups |-> stubs[i].powerups, team |-> tm]]

\* One pass of `while self.events_remaining() { ... }` in player_events,
\* written as a chain of steps in source order.  d is the buffer, s holds
\* the cursor and the locals at the top of the pass, r collects the values
\* the pass has read or computed so far; the last step returns the cursor
\* and the locals at the bottom of the pass.

\* lines 312-323 and the values the locals end the pass with; tick records
\* what the pass decoded (new_team, pop_occurred, grab_occurred, num_captures,
\* flag_kept, new_flag, the flag held after the captures, the footer value and
\* the cursor after read_footer)
FinishTick(d, s, r) ==
    [pos |-> r.foot.pos, team |-> r.team1, time |-> r.t,
     flag |-> IF r.new_team = r.team1 THEN r.flag2 ELSE "None",
     powerups |-> IF r.new_team # r.team1 /\ r.new_team = "None" THEN 0 ELSE r.pe.powerups,
     preventing |-> (s.preventing # r.tp.val),
     buttoning |-> (s.buttoning # r.tb.val),
     blocking |-> (s.blocking # r.tk.val),
     events |-> s.events \o Stamp(
         r.ev \o (IF r.new_team = r.team1 THEN <<>>
                  ELSE IF r.new_team = "None" THEN <<Stub("Quit", r.flag2, r.pe.powerups)>>
                  ELSE <<Stub("Switch", r.flag2, r.pe.powerups)>>),
         r.t, r.team1),
     tick |-> [new_team |-> r.new_team, pop |-> r.pop.val, grab |-> r.grab.val,
               caps |-> r.caps.val, flag_kept |-> r.flag_kept, new_flag |-> r.new_flag,
               held |-> r.cl.flag, footer |-> FooterValue(r.foot), end |-> r.foot.pos]]

EmitRest_popfirst(d, s, r) ==
    FinishTick(d, s, r @@
        [ev |-> r.cl.ev \o r.pe.ev
                \o Rep(r.pl.num_new, Stub("DuplicatePowerup", r.cl.flag, r.pe.powerups))
                \o DropOrPop(r.pop.val, r.cl.flag, r.pe.powerups)
                \o ToggleEvent(r.tp.val, s.preventing, "StartPrevent", "StopPrevent",
                               r.cl.flag, r.pe.powerups)
                \o ToggleEvent(r.tb.val, s.buttoning, "StartButton", "StopButton",
                               r.cl.flag, r.pe.powerups)
                \o ToggleEvent(r.tk.val, s.blocking, "StartBlock", "StopBlock",
                               r.cl.flag, r.pe.powerups),
         flag2 |-> IF r.pop.val THEN "None" ELSE r.cl.flag])

\* lines 277-310: DuplicatePowerup, the three toggles, Drop / Pop
EmitRest(d, s, r) ==
    FinishTick(d, s, r @@
        [ev |-> r.cl.ev \o r.pe.ev
                \o Rep(r.pl.num_new, Stub("DuplicatePowerup", r.cl.flag, r.pe.powerups))
                \o ToggleEvent(r.tp.val, s.preventing, "StartPrevent", "StopPrevent",
                               r.cl.flag, r.pe.powerups)
                \o ToggleEvent(r.tb.val, s.buttoning, "StartButton", "StopButton",
                               r.cl.flag, r.pe.powerups)
                \o ToggleEvent(r.tk.val, s.blocking, "StartBlock", "StopBlock",
                               r.cl.flag, r.pe.powerups)
                \o DropOrPop(r.pop.val, r.cl.flag, r.pe.powerups),
         flag2 |-> IF r.pop.val THEN "None" ELSE r.cl.flag])

\* lines 266-276
EmitPowerups(d, s, r) ==
    EmitRest(d, s, r @@
        [pe |-> powerup_emit_loop(1, s.powerups, r.pl.gained, r.pl.lost, r.cl.flag, <<>>)])

\* lines 251-264: Grab, then the captures
EmitGrabCaptures(d, s, r) ==
    EmitPowerups(d, s, r @@
        [cl |-> capture_loop(r.caps.val, r.new_flag, r.flag_kept, s.powerups,
                             r.ev0 \o (IF r.grab.val
                                       THEN <<Stub("Grab", r.new_flag, s.powerups)>>
                                       ELSE <<>>))])

\* lines 241-250: Join, Returns, Tags
EmitJoinReturnsTags(d, s, r) ==
    EmitGrabCaptures(d, s, r @@
        [team1 |-> IF s.team = "None" /\ r.new_team # "None" THEN r.new_team ELSE s.team,
         ev0 |-> (IF s.team = "None" /\ r.new_team # "None"
                  THEN <<Stub("Join", s.flag, s.powerups)>> ELSE <<>>)
                 \o Rep(r.rets.val, Stub("Return", s.flag, s.powerups))
                 \o Rep(r.tags.val, Stub("Tag", s.flag, s.powerups))])

ReadTime_nostep(d, s, r) ==
    EmitJoinReturnsTags(d, s, r @@ [t |-> s.time + FooterValue(r.foot)])

\* line 239: time += 1 + self.read_footer()
ReadTime(d, s, r) ==
    EmitJoinReturnsTags(d, s, r @@ [t |-> s.time + 1 + FooterValue(r.foot)])

ReadFooter(d, s, r) == ReadTime(d, s, r @@ [foot |-> read_footer(d, r.tk.pos)])

\* lines 236-238
ReadToggleBlocking(d, s, r) == ReadFooter(d, s, r @@ [tk |-> read_bool(d, r.tb.pos)])

ReadToggleButtoning(d, s, r) == ReadToggleBlocking(d, s, r @@ [tb |-> read_bool(d, r.tp.pos)])

ReadTogglePreventing(d, s, r) == ReadToggleButtoning(d, s, r @@ [tp |-> read_bool(d, r.pl.pos)])

\* lines 221-234
ReadPowerupBits(d, s, r) ==
    ReadTogglePreventing(d, s, r @@
        [pl |-> powerup_read_loop(d, r.pupt.pos, 1, s.powerups, r.pupt.val, 0, 0)])

\* line 220
ReadNewPowerups(d, s, r) == ReadPowerupBits(d, s, r @@ [pupt |-> read_tally(d, r.fsel.pos)])

\* lines 213-218: new_flag; a flag that is not grabbed stays as it is
ReadNewFlag(d, s, r) ==
    ReadNewPowerups(d, s, r @@
        [new_flag |-> IF r.grab.val
                      THEN (IF r.flag_kept THEN FlagFromUsize(1 + r.fsel.val) ELSE "Temporary")
                      ELSE s.flag])

ReadFlagSelector(d, s, r) ==
    ReadNewFlag(d, s, r @@
        [fsel |-> IF r.grab.val /\ r.flag_kept THEN read_fixed(d, r.keptb.pos, 2)
                  ELSE [val |-> 0, pos |-> r.keptb.pos, oob |-> FALSE]])

\* lines 211-212: flag_kept
ReadFlagKept(d, s, r) ==
    ReadFlagSelector(d, s, r @@
        [flag_kept |-> ~r.pop.val /\ r.new_team # "None"
                       /\ (r.caps.val = 0 \/ (s.flag = "None" /\ ~r.grab.val) \/ r.keptb.val)])

\* the short-circuit of lines 211-212: the bit is read only when every
\* operand before it leaves the result open
ReadKeptBit(d, s, r) ==
    ReadFlagKept(d, s, r @@
        [keptb |-> IF ~r.pop.val /\ r.new_team # "None" /\ r.caps.val # 0
                      /\ ~(s.flag = "None" /\ ~r.grab.val)
                   THEN read_bool(d, r.caps.pos) ELSE NoRead(r.caps.pos)])

\* line 209
ReadCaptures(d, s, r) == ReadKeptBit(d, s, r @@ [caps |-> read_tally(d, r.grab.pos)])

\* line 208
ReadGrab(d, s, r) ==
    ReadCaptures(d, s, r @@
        [grab |-> IF GrabQueried(s.flag) THEN read_bool(d, r.tags.pos)
                  ELSE NoRead(r.tags.pos)])

\* line 207
ReadTags(d, s, r) == ReadGrab(d, s, r @@ [tags |-> read_tally(d, r.rets.pos)])

\* line 206
ReadReturns(d, s, r) == ReadTags(d, s, r @@ [rets |-> read_tally(d, r.pop.pos)])

\* line 205
ReadPop(d, s, r) == ReadReturns(d, s, r @@ [pop |-> read_bool(d, r.dir.pos)])

\* lines 195-203: new_team
ReadNewTeam(d, s, r) ==
    ReadPop(d, s, r @@
        [new_team |-> IF r.chg.val THEN NewTeam(s.team, r.dir.val) ELSE s.team])

ReadDirection(d, s, r) ==
    ReadNewTeam(d, s, r @@
        [dir |-> IF r.chg.val THEN read_bool(d, r.chg.pos) ELSE NoRead(r.chg.pos)])

TickStep(d, s) == ReadDirection(d, s, [chg |-> read_bool(d, s.pos)])

\* self.pos = 0 at the start of player_events
ResetPos_keep(p) == p

ResetPos(p) == 0

EndTime_last(t, dur) == t

\* the End event is pushed with `time: duration`
EndTime(t, dur) == dur

EndEvent(s, dur) ==
    [event_type |-> "End", time |-> EndTime(s.time, dur), flag |-> s.flag,
     powerups |-> s.powerups, team |-> s.team]

\* locals of player_events right after `let mut events = Vec::new()`
EntryState(p, tm) ==
    [pos |-> ResetPos(p), team |-> tm, time |-> 0, flag |-> "None", powerups |-> 0,
     preventing |-> FALSE, buttoning |-> FALSE, blocking |-> FALSE, events |-> <<>>]

LoopGuard_forever(d, p) == TRUE

\* while self.events_remaining()
LoopGuard(d, p) == events_remaining(d, p)

RECURSIVE decode_loop(_, _)
decode_loop(d, s) ==
    IF LoopGuard(d, s.pos) THEN decode_loop(d, TickStep(d, s)) ELSE s

\* the whole of player_events as a function of (buffer, cursor, team, duration)
PlayerEvents(d, p, tm, dur) ==
    LET s == decode_loop(d, EntryState(p, tm))
    IN Append(s.events, EndEvent(s, dur))

(***************************************************************************)
(* EventFuser and roster replay: event_processor.rs process_ranked_match,  *)
(* ranked_ratings.rs get_relevant_events                                   *)
(***************************************************************************)
MINIMUM_RANKED_MATCH_LENGTH == 180 * 60

MinPlayers == 8

None == <<>>

Some(v) == <<v>>

\* RankedStatConfig::RELEVANT_EVENTS
RELEVANT_EVENTS ==
    {"Capture", "Grab", "Drop", "Return", "Tag", "Pop", "Powerup",
     "DuplicatePowerup", "StartPrevent", "StopPrevent", "Quit"}

\* the match arms of get_relevant_events
RatingsRelevant ==
    {"Capture", "Grab", "Drop", "Tag", "Return", "StartPrevent", "StopPrevent",
     "Pop", "Powerup", "DuplicatePowerup"}

\* the filter at the top of process_ranked_match / get_ranked_matchups
Eligible(m) ==
    /\ m.official
    /\ Len(m.players) >= MinPlayers
    /\ m.group = Some("")
    /\ m.time_limit = 8
    /\ m.duration >= MINIMUM_RANKED_MATCH_LENGTH

\* the RelevantEvents pushed for player i (0-based) by process_ranked_match
PlayerRelevant(m, i) ==
    LET pl == m.players[i + 1]
        evs == PlayerEvents(pl.events, 0, TeamFromUsize(pl.team), m.duration)
        keep == SelectSeq(evs, LAMBDA e : e.event_type \in RELEVANT_EVENTS)
    IN [k \in 1..Len(keep) |->
          [time |-> keep[k].time, event_type |-> keep[k].event_type,
           player_index |-> i, team |-> keep[k].team]]

\* the RelevantEvents pushed for player i (0-based) by get_relevant_events
PlayerRelevantRatings(m, i) ==
    LET pl == m.players[i + 1]
        evs == PlayerEvents(pl.events, 0, TeamFromUsize(pl.team), m.duration)
        keep == SelectSeq(evs, LAMBDA e : e.event_type \in RatingsRelevant)
    IN [k \in 1..Len(keep) |->
          [time |-> keep[k].time,
           event_type |-> IF keep[k].event_type = "DuplicatePowerup" THEN "Powerup"
                          ELSE keep[k].event_type,
           player_index |-> i, team |-> keep[k].team]]

\* the loop over match_log.players.iter().enumerate(), from player i on
RECURSIVE CollectFrom(_, _, _)
CollectFrom(m, i, pl) ==
    IF i >= Len(m.players) THEN <<>>
    ELSE (IF pl = "event_processor" THEN PlayerRelevant(m, i)
          ELSE PlayerRelevantRatings(m, i)) \o CollectFrom(m, i + 1, pl)

InitialRoster_any(m, t) == [k \in 1..Len(m.players) |-> k - 1]

\* indices (0-based, ascending) of the players whose starting team is t
InitialRoster(m, t) ==
    LET ix == [k \in 1..Len(m.players) |-> k - 1]
    IN SelectSeq(ix, LAMBDA i : TeamFromUsize(m.players[i + 1].team) = t)

\* some Team::from_usize(player.team).expect(..) fails
SomeTeamUnparseable(m) ==
    \E k \in 1..Len(m.players) : TeamFromUsize(m.players[k].team) = "Invalid"

MinTime(sq) == CHOOSE t \in {sq[k].time : k \in 1..Len(sq)} :
                  \A k \in 1..Len(sq) : t <= sq[k].time

RemoveAt(sq, i) == [k \in 1..(Len(sq) - 1) |-> IF k < i THEN sq[k] ELSE sq[k + 1]]

\* sort_unstable_by_key(|x| x.time): the result is ordered by time, the order
\* of elements with equal time is unspecified; every such order is an outcome.
RECURSIVE sort_unstable_by_key(_)
sort_unstable_by_key(sq) ==
    IF sq = <<>> THEN {<<>>}
    ELSE LET m == MinTime(sq)
         IN UNION {{<<sq[i]>> \o r : r \in sort_unstable_by_key(RemoveAt(sq, i))} :
                      i \in {k \in 1..Len(sq) : sq[k].time = m}}

Contains(sq, x) == \E k \in 1..Len(sq) : sq[k] = x

Retain(sq, x) == SelectSeq(sq, LAMBDA y : y # x)

IsEarlyQuit_le(t, dur) == t <= dur - MINIMUM_RANKED_MATCH_LENGTH

\* if event.time < match_log.duration - MINIMUM_RANKED_MATCH_LENGTH
IsEarlyQuit(t, dur) == t < dur - MINIMUM_RANKED_MATCH_LENGTH

\* the Join / Quit arms of the event loop of process_ranked_match
RosterStep(e, dur, red, blue) ==
    CASE e.event_type = "Join" ->
            IF ~Contains(red, e.player_index) /\ ~Contains(blue, e.player_index)
            THEN CASE e.team = "Red" -> [red |-> Append(red, e.player_index), blue |-> blue]
                   [] e.team = "Blue" -> [red |-> red, blue |-> Append(blue, e.player_index)]
                   [] OTHER -> [red |-> red, blue |-> blue]
            ELSE [red |-> red, blue |-> blue]
      [] e.event_type = "Quit" ->
            IF IsEarlyQuit(e.time, dur)
            THEN CASE e.team = "Red" -> [red |-> Retain(red, e.player_index), blue |-> blue]
                   [] e.team = "Blue" -> [red |-> red, blue |-> Retain(blue, e.player_index)]
                   [] OTHER -> [red |-> red, blue |-> blue]
            ELSE [red |-> red, blue |-> blue]
      [] OTHER -> [red |-> red, blue |-> blue]

IsFourVsFour_redonly(red, blue) == Len(red) = 4

\* if red_team.len() == 4 && blue_team.len() == 4
IsFourVsFour(red, blue) == Len(red) = 4 /\ Len(blue) = 4

(***************************************************************************)
(* StatEngine: RankedStatConfig::process_event                             *)
(***************************************************************************)
DefaultStats ==
    [caps |-> 0, garbage_time_caps |-> 0, hold_start |-> None, hold |-> 0,
     ndps |-> 0, returns |-> 0, quick_returns |-> 0, nrts |-> 0, pups |-> 0,
     keypops |-> 0, handoffs |-> 0, goodprevent |-> 0, resets |-> 0,
     badflaccids |-> 0, sparkedouts |-> 0, prevent_start |-> None, prevent |-> 0]

is_garbage_time_nonstrict(t, cd) ==
    \/ (t >= 330 * 60 /\ (cd >= 4 \/ cd <= -4))
    \/ (t >= 360 * 60 /\ (cd >= 3 \/ cd <= -3))
    \/ (t >= 390 * 60 /\ (cd >= 2 \/ cd <= -2))

\* lines 67-69
is_garbage_time(t, cd) ==
    \/ (t > 330 * 60 /\ (cd >= 4 \/ cd <= -4))
    \/ (t > 360 * 60 /\ (cd >= 3 \/ cd <= -3))
    \/ (t > 390 * 60 /\ (cd >= 2 \/ cd <= -2))

NewCapDiff_redonly(tm, cd) == cd + 1

\* lines 71-86: `*cap_diff += 1` for Red, `*cap_diff -= 1` for Blue
NewCapDiff(tm, cd) ==
    CASE tm = "Red" -> cd + 1
      [] tm = "Blue" -> cd - 1
      [] OTHER -> cd

StillAhead_always(tm, cd) == tm \in {"Red", "Blue"}

\* lines 74 and 81: `*cap_diff > 0` for Red, `*cap_diff < 0` for Blue, after the update
StillAhead(tm, cd) == (tm = "Red" /\ cd > 0) \/ (tm = "Blue" /\ cd < 0)

count_return_quick(stats) == [stats EXCEPT !.returns = @ + 1, !.quick_returns = @ + 1]

\* lines 142-145: the Return arm (quick_returns is left alone)
count_return(stats) == [stats EXCEPT !.returns = @ + 1]

\* st = [cap_diff, garbage_time_cap_diff, red_fc, blue_fc, red_grab_time,
\*       blue_grab_time, player_stats]
process_event(e, st) ==
    LET pi == e.player_index + 1
        stats == st.player_stats[pi]
        ClearFc(x) == CASE e.team = "Red" -> [x EXCEPT !.red_fc = None, !.red_grab_time = None]
                        [] e.team = "Blue" -> [x EXCEPT !.blue_fc = None, !.blue_grab_time = None]
                        [] OTHER -> x
        CloseHold(r) == IF r.hold_start # None
                        THEN [r EXCEPT !.hold = @ + (e.time - r.hold_start[1]),
                                       !.hold_start = None]
                        ELSE r
    IN CASE e.event_type = "Capture" ->
            LET garbage == is_garbage_time(e.time, st.cap_diff)
                cd == NewCapDiff(e.team, st.cap_diff)
                counted == garbage /\ StillAhead(e.team, cd)
                gt == IF ~counted THEN st.garbage_time_cap_diff
                      ELSE IF e.team = "Red" THEN st.garbage_time_cap_diff + 1
                      ELSE st.garbage_time_cap_diff - 1
                stats1 == [stats EXCEPT !.garbage_time_caps = IF counted THEN @ + 1 ELSE @,
                                        !.caps = @ + 1, !.hold_start = None]
            IN ClearFc([st EXCEPT !.cap_diff = cd, !.garbage_time_cap_diff = gt,
                                  !.player_stats[pi] = stats1])
         [] e.event_type = "Grab" ->
            LET st1 == [st EXCEPT !.player_stats[pi].hold_start = Some(e.time)]
            IN CASE e.team = "Red" -> [st1 EXCEPT !.red_fc = Some(e.player_index),
                                                  !.red_grab_time = Some(e.time)]
                 [] e.team = "Blue" -> [st1 EXCEPT !.blue_fc = Some(e.player_index),
                                                   !.blue_grab_time = Some(e.time)]
                 [] OTHER -> st1
         [] e.event_type = "Drop" ->
            ClearFc([st EXCEPT !.player_stats[pi] = CloseHold(stats)])
         [] e.event_type = "Return" -> [st EXCEPT !.player_stats[pi] = count_return(@)]
         [] e.event_type = "Tag" -> [st EXCEPT !.player_stats[pi].nrts = @ + 1]
         [] e.event_type = "Pop" -> [st EXCEPT !.player_stats[pi].ndps = @ + 1]
         [] e.event_type \in {"Powerup", "DuplicatePowerup"} ->
            [st EXCEPT !.player_stats[pi].pups = @ + 1]
         [] e.event_type = "StartPrevent" ->
            [st EXCEPT !.player_stats[pi].prevent_start = Some(e.time)]
         [] e.event_type = "StopPrevent" ->
            IF stats.prevent_start # None
            THEN [st EXCEPT !.player_stats[pi].prevent = @ + (e.time - stats.prevent_start[1]),
                            !.player_stats[pi].prevent_start = None]
            ELSE st
         [] e.event_type = "Quit" ->
            [st EXCEPT !.player_stats[pi] = [CloseHold(stats) EXCEPT !.ndps = @ + 1]]
         [] OTHER -> st

(***************************************************************************)
(* RecordsCollector::process_event_static, the rule set of records.rs.     *)
(***************************************************************************)
\* PlayerGameStats::default()
DefaultGameStats ==
    [caps |-> 0, returns |-> 0, tags |-> 0, pops |-> 0, grabs |-> 0, pups |-> 0,
     quick_returns |-> 0, flaccid_grabs |-> 0, hold |-> 0, prevent |-> 0, button |-> 0,
     hold_start |-> None, prevent_start |-> None, button_start |-> None,
     last_grab_time |-> None]

\* time.min(cutoff)
MinOf(a, b) == IF a <= b THEN a ELSE b

\* if let Some(start) = stats.<start> { let end_time = time.min(cutoff);
\*   if start < cutoff { stats.<total> += end_time - start; } stats.<start> = None; }
CloseInterval(r, total, start, t, cutoff) ==
    IF r[start] # None
    THEN [r EXCEPT ![total] = IF r[start][1] < cutoff
                              THEN @ + (MinOf(t, cutoff) - r[start][1]) ELSE @,
                   ![start] = None]
    ELSE r

\* if let Some(grab_time) = g { if time > grab_time && time - grab_time < 2 * 60 {..} }
WithinTwoSeconds(g, t) == g # None /\ t > g[1] /\ t - g[1] < 2 * 60

\* match team { Red => *red_grab_time = v, Blue => *blue_grab_time = v, _ => {} }
SetTeamGrabTime(rs, tm, v) ==
    CASE tm = "Red" -> [rs EXCEPT !.red_grab_time = v]
      [] tm = "Blue" -> [rs EXCEPT !.blue_grab_time = v]
      [] OTHER -> rs

\* records.rs line 10: 8 * 60 * 60 ticks
EIGHT_MINUTES == 28800

\* if let Some(start) = self.<start> { if start < cutoff {
\*   self.<total> += cutoff.min(end_time) - start; } }
\* A negative total stands for the wrapped usize 2^64 + total.
FinalizeInterval(r, total, start, end_time, cutoff) ==
    IF r[start] # None /\ r[start][1] < cutoff
    THEN [r EXCEPT ![total] = @ + (MinOf(cutoff, end_time) - r[start][1])]
    ELSE r

\* PlayerGameStats::finalize_time_stats
finalize_time_stats(r, end_time, cutoff) ==
    FinalizeInterval(
        FinalizeInterval(
            FinalizeInterval(r, "hold", "hold_start", end_time, cutoff),
            "prevent", "prevent_start", end_time, cutoff),
        "button", "button_start", end_time, cutoff)

\* some `cutoff.min(end_time) - start` of finalize_time_stats has start above
\* the minuend: the subtraction panics with overflow checks and wraps without
FinalizeUnderflows(r, end_time, cutoff) ==
    \E start \in {"hold_start", "prevent_start", "button_start"} :
        /\ r[start] # None
        /\ r[start][1] < cutoff
        /\ MinOf(cutoff, end_time) < r[start][1]

\* rs = [stats, red_grab_time, blue_grab_time]; e is the timed event
process_event_static(e, cutoff, rs) ==
    LET pi == e.player_index + 1
        stats == rs.stats[pi]
        t == e.time
    IN IF t > cutoff THEN rs
       ELSE CASE e.event_type = "Capture" ->
                 SetTeamGrabTime(
                     [rs EXCEPT !.stats[pi] =
                         CloseInterval([stats EXCEPT !.caps = @ + 1],
                                       "hold", "hold_start", t, cutoff)],
                     e.team, None)
              [] e.event_type = "Grab" ->
                 SetTeamGrabTime(
                     [rs EXCEPT !.stats[pi] =
                         [stats EXCEPT !.grabs = @ + 1, !.hold_start = Some(t),
                                       !.last_grab_time = Some(t)]],
                     e.team, Some(t))
              [] e.event_type = "Drop" ->
                 SetTeamGrabTime(
                     [rs EXCEPT !.stats[pi] =
                         [CloseInterval([stats EXCEPT !.pops = @ + 1],
                                        "hold", "hold_start", t, cutoff)
                            EXCEPT !.flaccid_grabs =
                                IF WithinTwoSeconds(stats.last_grab_time, t) THEN @ + 1 ELSE @]],
                     e.team, None)
              [] e.event_type = "Return" ->
                 [rs EXCEPT !.stats[pi] =
                     [stats EXCEPT !.returns = @ + 1, !.tags = @ + 1,
                                   !.quick_returns =
                                       IF WithinTwoSeconds(
                                              CASE e.team = "Red" -> rs.blue_grab_time
                                                [] e.team = "Blue" -> rs.red_grab_time
                                                [] OTHER -> None, t)
                                       THEN @ + 1 ELSE @]]
              [] e.event_type = "Tag" -> [rs EXCEPT !.stats[pi].tags = @ + 1]
              [] e.event_type = "Pop" -> [rs EXCEPT !.stats[pi].pops = @ + 1]
              [] e.event_type \in {"Powerup", "DuplicatePowerup"} ->
                 [rs EXCEPT !.stats[pi].pups = @ + 1]
              [] e.event_type = "StartPrevent" ->
                 [rs EXCEPT !.stats[pi].prevent_start = Some(t)]
              [] e.event_type = "StopPrevent" ->
                 [rs EXCEPT !.stats[pi] =
                     CloseInterval(stats, "prevent", "prevent_start", t, cutoff)]
              [] e.event_type = "StartButton" ->
                 [rs EXCEPT !.stats[pi].button_start = Some(t)]
              [] e.event_type = "StopButton" ->
                 [rs EXCEPT !.stats[pi] =
                     CloseInterval(stats, "button", "button_start", t, cutoff)]
              [] e.event_type = "Quit" ->
                 [rs EXCEPT !.stats[pi] =
                     CloseInterval(
                         CloseInterval(
                             CloseInterval(stats, "hold", "hold_start", t, cutoff),
                             "prevent", "prevent_start", t, cutoff),
                         "button", "button_start", t, cutoff)]
              [] OTHER -> rs

(***************************************************************************)
(* PatternDetector: RankedStatConfig::post_process_stats and its scanners. *)
(* evs is the timeline (1-based here, 0-based in the source), ps the       *)
(* per-player stat records, red / blue the rosters.                        *)
(***************************************************************************)
\* a.saturating_sub(b)
SaturatingSub(a, b) == IF a >= b THEN a - b ELSE 0

\* (cap_team == Red && other == Blue) || (cap_team == Blue && other == Red)
Opposing(a, b) == (a = "Red" /\ b = "Blue") \/ (a = "Blue" /\ b = "Red")

\* all_player_stats[p].<field> += n   (p is 0-based)
AddStat(ps, p, field, n) == [ps EXCEPT ![p + 1][field] = @ + n]

\* if team == Team::Red { red_team } else { blue_team }
RosterOf(tm, red, blue) == IF tm = "Red" THEN red ELSE blue

\* if team == Team::Red { blue_team } else { red_team }
OpponentsOf(tm, red, blue) == IF tm = "Red" THEN blue ELSE red

BeforeWindow_inclusive(t, cap_time) == t <= SaturatingSub(cap_time, 2 * 60)

\* line 196: all_events[j].time < cap_time.saturating_sub(2 * 60)
BeforeWindow(t, cap_time) == t < SaturatingSub(cap_time, 2 * 60)

\* lines 195-207: for j in (0..i).rev()
RECURSIVE keypop_back(_, _, _, _)
keypop_back(evs, i, j, ps) ==
    IF j < 1 THEN ps
    ELSE IF BeforeWindow(evs[j].time, evs[i].time) THEN ps
    ELSE keypop_back(evs, i, j - 1,
                     IF evs[j].event_type = "Pop" /\ Opposing(evs[i].team, evs[j].team)
                     THEN AddStat(ps, evs[j].player_index, "keypops", 1)
                     ELSE ps)

\* lines 189-209
RECURSIVE process_keypops(_, _, _)
process_keypops(evs, i, ps) ==
    IF i > Len(evs) THEN ps
    ELSE process_keypops(evs, i + 1,
                         IF evs[i].event_type = "Capture"
                         THEN keypop_back(evs, i, i - 1, ps) ELSE ps)

found_handoff_never(evs, j, k) == FALSE

\* lines 230-253: found_handoff for the grab at j, scanning k
RECURSIVE found_handoff(_, _, _)
found_handoff(evs, j, k) ==
    IF k > Len(evs) THEN FALSE
    ELSE IF evs[k].event_type = "Capture" /\ evs[k].player_index = evs[j].player_index
         THEN TRUE
    ELSE IF evs[k].event_type \in {"Grab", "Capture"} THEN FALSE
    ELSE IF /\ evs[k].time >= evs[j].time + 5 * 60
            /\ evs[k].event_type = "Drop"
            /\ evs[k].player_index = evs[j].player_index
         THEN TRUE
    ELSE found_handoff(evs, j, k + 1)

\* lines 219-261: whether the drop at i earns a handoff, scanning j
RECURSIVE handoff_ahead(_, _, _)
handoff_ahead(evs, i, j) ==
    IF j > Len(evs) THEN FALSE
    ELSE IF evs[j].time > evs[i].time + 60 THEN FALSE
    ELSE IF /\ evs[j].event_type = "Grab"
            /\ evs[j].team = evs[i].team
            /\ evs[j].player_index # evs[i].player_index
         THEN found_handoff(evs, j, j + 1)
    ELSE handoff_ahead(evs, i, j + 1)

\* lines 212-263
RECURSIVE process_handoffs(_, _, _)
process_handoffs(evs, i, ps) ==
    IF i > Len(evs) THEN ps
    ELSE process_handoffs(evs, i + 1,
                          IF evs[i].event_type = "Drop" /\ handoff_ahead(evs, i, i + 1)
                          THEN AddStat(ps, evs[i].player_index, "handoffs", 1)
                          ELSE ps)

teammate_had_flag_always(evs, i, j, k, roster) == TRUE

\* lines 319-331: for k in i..=j
RECURSIVE teammate_had_flag(_, _, _, _, _)
teammate_had_flag(evs, i, j, k, roster) ==
    IF k > j THEN FALSE
    ELSE IF /\ evs[k].event_type = "Grab"
            /\ Contains(roster, evs[k].player_index)
            /\ evs[k].time >= evs[i].time
            /\ evs[k].time <= evs[j].time
         THEN TRUE
    ELSE teammate_had_flag(evs, i, j, k + 1, roster)

\* lines 313-339: the StopPrevent matching the StartPrevent at i, scanning j
RECURSIVE goodprevent_stop(_, _, _, _, _, _)
goodprevent_stop(evs, i, j, ps, red, blue) ==
    IF j > Len(evs) THEN ps
    ELSE IF /\ evs[j].event_type = "StopPrevent"
            /\ evs[j].player_index = evs[i].player_index
         THEN IF ~teammate_had_flag(evs, i, j, i, RosterOf(evs[i].team, red, blue))
              THEN AddStat(ps, evs[i].player_index, "goodprevent",
                           evs[j].time - evs[i].time)
              ELSE ps
    ELSE goodprevent_stop(evs, i, j + 1, ps, red, blue)

\* lines 306-341
RECURSIVE goodprevent_loop(_, _, _, _, _)
goodprevent_loop(evs, i, ps, red, blue) ==
    IF i > Len(evs) THEN ps
    ELSE goodprevent_loop(evs, i + 1,
                          IF evs[i].event_type = "StartPrevent"
                          THEN goodprevent_stop(evs, i, i + 1, ps, red, blue) ELSE ps,
                          red, blue)

process_goodprevent(evs, ps, red, blue) == goodprevent_loop(evs, 1, ps, red, blue)

\* line 379: all_events[k].player_index != grab_player
reset_hold_other(evs, j, k) == evs[k].player_index # evs[j].player_index

\* lines 371-382: whether the grab at j reaches a 5+ second hold, scanning k
RECURSIVE reset_hold(_, _, _)
reset_hold(evs, j, k) ==
    IF k > Len(evs) THEN FALSE
    ELSE IF evs[k].time >= evs[j].time + 5 * 60 THEN TRUE
    ELSE IF /\ evs[k].event_type \in {"Grab", "Capture", "Drop"}
            /\ reset_hold_other(evs, j, k)
         THEN FALSE
    ELSE reset_hold(evs, j, k + 1)

\* lines 359-388: found_opponent_grab for the return at i, scanning j
RECURSIVE found_opponent_grab(_, _, _, _)
found_opponent_grab(evs, i, j, opponents) ==
    IF j > Len(evs) THEN FALSE
    ELSE IF evs[j].time > evs[i].time + 5 * 60 THEN FALSE
    ELSE IF /\ evs[j].event_type = "Grab"
            /\ Contains(opponents, evs[j].player_index)
            /\ reset_hold(evs, j, j + 1)
         THEN TRUE
    ELSE found_opponent_grab(evs, i, j + 1, opponents)

\* lines 351-394
RECURSIVE reset_loop(_, _, _, _, _)
reset_loop(evs, i, ps, red, blue) ==
    IF i > Len(evs) THEN ps
    ELSE reset_loop(evs, i + 1,
                    IF /\ evs[i].event_type = "Return"
                       /\ ~found_opponent_grab(evs, i, i + 1,
                                               OpponentsOf(evs[i].team, red, blue))
                    THEN AddStat(ps, evs[i].player_index, "resets", 1) ELSE ps,
                    red, blue)

process_resets(evs, ps, red, blue) == reset_loop(evs, 1, ps, red, blue)

\* lines 409-417: hold time of the drop at i, scanning j backwards
RECURSIVE flaccid_hold_time(_, _, _)
flaccid_hold_time(evs, i, j) ==
    IF j < 1 THEN 0
    ELSE IF evs[j].event_type = "Grab" /\ evs[j].player_index = evs[i].player_index
         THEN evs[i].time - evs[j].time
    ELSE flaccid_hold_time(evs, i, j - 1)

\* lines 422-436: an opposing capture within 10 seconds of the drop at i
RECURSIVE flaccid_capture_ahead(_, _, _)
flaccid_capture_ahead(evs, i, j) ==
    IF j > Len(evs) THEN FALSE
    ELSE IF evs[j].time > evs[i].time + 10 * 60 THEN FALSE
    ELSE IF evs[j].event_type = "Capture" /\ Opposing(evs[j].team, evs[i].team) THEN TRUE
    ELSE flaccid_capture_ahead(evs, i, j + 1)

IsFlaccid_inclusive(hold_time) == hold_time <= 2 * 60

\* line 420: if hold_time < 2 * 60
IsFlaccid(hold_time) == hold_time < 2 * 60

\* lines 402-439
RECURSIVE badflaccid_loop(_, _, _)
badflaccid_loop(evs, i, ps) ==
    IF i > Len(evs) THEN ps
    ELSE badflaccid_loop(evs, i + 1,
                         IF /\ evs[i].event_type = "Drop"
                            /\ IsFlaccid(flaccid_hold_time(evs, i, i - 1))
                            /\ flaccid_capture_ahead(evs, i, i + 1)
                         THEN AddStat(ps, evs[i].player_index, "badflaccids", 1) ELSE ps)

process_badflaccids(evs, ps) == badflaccid_loop(evs, 1, ps)

\* lines 469-477: for k in (j + 1)..i
RECURSIVE still_holding(_, _, _, _)
still_holding(evs, j, k, i) ==
    IF k >= i THEN TRUE
    ELSE IF /\ evs[k].event_type \in {"Drop", "Capture"}
            /\ evs[k].player_index = evs[j].player_index
         THEN FALSE
    ELSE still_holding(evs, j, k + 1, i)

\* lines 457-485: teammate_was_holding for the grab at i, scanning j backwards
RECURSIVE teammate_was_holding(_, _, _, _)
teammate_was_holding(evs, i, j, roster) ==
    IF j < 1 THEN FALSE
    ELSE IF evs[j].time < SaturatingSub(evs[i].time, 3 * 60) THEN FALSE
    ELSE IF /\ evs[j].event_type = "Grab"
            /\ Contains(roster, evs[j].player_index)
            /\ evs[j].player_index # evs[i].player_index
            /\ still_holding(evs, j, j + 1, i)
            /\ evs[j].time <= evs[i].time
         THEN TRUE
    ELSE teammate_was_holding(evs, i, j - 1, roster)

\* lines 489-499: whether the grab at i is held for 5+ seconds, scanning j
RECURSIVE spark_sustained(_, _, _)
spark_sustained(evs, i, j) ==
    IF j > Len(evs) THEN FALSE
    ELSE IF evs[j].time >= evs[i].time + 5 * 60 THEN TRUE
    ELSE IF /\ evs[j].event_type \in {"Grab", "Capture", "Drop"}
            /\ evs[j].player_index = evs[i].player_index
         THEN FALSE
    ELSE spark_sustained(evs, i, j + 1)

\* lines 449-502
RECURSIVE sparkedout_loop(_, _, _, _, _)
sparkedout_loop(evs, i, ps, red, blue) ==
    IF i > Len(evs) THEN ps
    ELSE sparkedout_loop(evs, i + 1,
                         IF /\ evs[i].event_type = "Grab"
                            /\ ~teammate_was_holding(evs, i, i - 1,
                                                     RosterOf(evs[i].team, red, blue))
                            /\ spark_sustained(evs, i, i + 1)
                         THEN AddStat(ps, evs[i].player_index, "sparkedouts", 1) ELSE ps,
                         red, blue)

process_sparkedouts(evs, ps, red, blue) == sparkedout_loop(evs, 1, ps, red, blue)

\* lines 182-276: the six scanners in source order
post_process_stats(evs, ps, red, blue) ==
    process_sparkedouts(evs,
        process_badflaccids(evs,
            process_resets(evs,
                process_goodprevent(evs,
                    process_handoffs(evs, 1, process_keypops(evs, 1, ps)),
                    red, blue),
                red, blue)),
        red, blue)

(***************************************************************************)
(* Idle values of the variables a specification does not use               *)
(***************************************************************************)
IdleHarness == op = "new" /\ ret = 0 /\ pos0 = 0 /\ oob = FALSE

IdleLayout == layout = <<>> /\ width = 0

IdleFooter == data2 = <<>> /\ pos2 = 0 /\ ret2 = 0

IdleDecode ==
    /\ start_team = "None" /\ duration = 0 /\ team = "None" /\ time = 0
    /\ flag = "None" /\ powerups = 0 /\ preventing = FALSE /\ buttoning = FALSE
    /\ blocking = FALSE /\ events = <<>> /\ calls = 0 /\ first_events = <<>>

IdleEngine ==
    /\ cap_diff = 0 /\ garbage_time_cap_diff = 0
    /\ red_fc = <<>> /\ blue_fc = <<>> /\ red_grab_time = <<>> /\ blue_grab_time = <<>>
    /\ player_stats = <<>>
    /\ records = <<>>

IdleMatch ==
    /\ match_log = <<>> /\ pipeline = "none" /\ collected = <<>>
    /\ relevant_events = <<>> /\ red_team = <<>> /\ blue_team = <<>>
    /\ idx = 0 /\ returned = "pending" /\ panicked = FALSE
    /\ IdleEngine

(***************************************************************************)
(* CursorSpec: a reader built by EventsReader::new on which the four       *)
(* cursor reads are called in any order.                                   *)
(***************************************************************************)
CursorInit ==
    /\ data \in SeqsUpTo(CursorBytes, MaxCursorBytes)
    /\ pos = 0
    /\ pc = "cursor"
    /\ IdleHarness /\ IdleLayout /\ IdleFooter /\ IdleDecode /\ IdleMatch

Returned(name, r, v) ==
    /\ op' = name
    /\ ret' = v
    /\ pos0' = pos
    /\ pos' = r.pos
    /\ oob' = (oob \/ r.oob)
    /\ UNCHANGED <<data, pc>>
    /\ UNCHANGED footerVars
    /\ UNCHANGED matchVars
    /\ UNCHANGED decodeVars

CallReadBool ==
    /\ pc = "cursor"
    /\ LET r == read_bool(data, pos) IN Returned("read_bool", r, r.val)

CallReadFixed ==
    /\ pc = "cursor"
    /\ \E n \in 0..MaxFixedBits :
          LET r == read_fixed(data, pos, n) IN Returned("read_fixed", r, r.val)

CallReadTally ==
    /\ pc = "cursor"
    /\ LET r == read_tally(data, pos) IN Returned("read_tally", r, r.val)

CallReadFooter ==
    /\ pc = "cursor"
    /\ LET r == read_footer(data, pos) IN Returned("read_footer", r, [sel |-> r.sel, size |-> r.size, fixed |-> r.fixed, minimum |-> r.minimum])

CursorNext == CallReadBool \/ CallReadFixed \/ CallReadTally \/ CallReadFooter

CursorSpec == CursorInit /\ [][CursorNext]_vars

(***************************************************************************)
(* FooterSpec: two independent readers positioned at the same bit offset   *)
(* inside their first byte each decode one footer.  The buffers hold the   *)
(* selector at that offset followed by a fill pattern, cut to 1..Max bytes.*)
(***************************************************************************)
FillBit(fill, k) ==
    CASE fill = "zeros" -> 0 [] fill = "ones" -> 1 [] OTHER -> k % 2

\* bit k (0-based) of a buffer holding selector s at bit offset o
FooterInputBit(o, s, fill, k) ==
    IF k < o THEN 0
    ELSE IF k = o THEN s \div 2
    ELSE IF k = o + 1 THEN s % 2
    ELSE FillBit(fill, k)

FooterInput(o, s, fill, nbytes) ==
    [i \in 1..nbytes |->
        LET b(k) == FooterInputBit(o, s, fill, 8 * (i - 1) + k)
        IN 128 * b(0) + 64 * b(1) + 32 * b(2) + 16 * b(3)
           + 8 * b(4) + 4 * b(5) + 2 * b(6) + b(7)]

FooterInputs(o) ==
    {FooterInput(o, s, fill, n) :
        s \in 0..3, fill \in {"zeros", "ones", "alt"}, n \in 1..MaxFooterBytes}

FooterInit ==
    /\ pos \in 0..7
    /\ pos2 = pos
    /\ pos0 = pos
    /\ data \in FooterInputs(pos)
    /\ data2 \in FooterInputs(pos)
    /\ pc = "footer"
    /\ op = "new" /\ ret = 0 /\ ret2 = 0 /\ oob = FALSE
    /\ IdleLayout /\ IdleDecode /\ IdleMatch

FooterRecord(r) == [sel |-> r.sel, size |-> r.size, fixed |-> r.fixed, minimum |-> r.minimum]

ReadFooterFirst ==
    /\ pc = "footer"
    /\ LET r == read_footer(data, pos)
       IN /\ ret' = FooterRecord(r)
          /\ pos' = r.pos
          /\ oob' = (oob \/ r.oob)
    /\ pc' = "footer2"
    /\ UNCHANGED <<data, op, pos0, data2, pos2, ret2>>
    /\ UNCHANGED decodeVars
    /\ UNCHANGED matchVars

ReadFooterSecond ==
    /\ pc = "footer2"
    /\ LET r == read_footer(data2, pos2)
       IN /\ ret2' = FooterRecord(r)
          /\ pos2' = r.pos
          /\ oob' = (oob \/ r.oob)
    /\ pc' = "footers_read"
    /\ op' = "read_footer"
    /\ UNCHANGED <<data, pos, ret, pos0, data2>>
    /\ UNCHANGED decodeVars
    /\ UNCHANGED matchVars

FooterNext == ReadFooterFirst \/ ReadFooterSecond

FooterSpec == FooterInit /\ [][FooterNext]_vars

(***************************************************************************)
(* DecodeSpec: player_events called (up to MaxCalls times) on one reader.  *)
(***************************************************************************)
DecodeInit ==
    /\ data \in SeqsUpTo(DecodeBytes, MaxDecodeBytes)
    /\ pos = 0
    /\ pc = "new"
    /\ start_team \in Teams
    /\ duration \in DecodeDurations
    /\ team = start_team /\ time = 0 /\ flag = "None" /\ powerups = 0
    /\ preventing = FALSE /\ buttoning = FALSE /\ blocking = FALSE
    /\ events = <<>> /\ calls = 0 /\ first_events = <<>>
    /\ IdleHarness /\ IdleLayout /\ IdleFooter /\ IdleMatch

Locals == [pos |-> pos, team |-> team, time |-> time, flag |-> flag,
           powerups |-> powerups, preventing |-> preventing,
           buttoning |-> buttoning, blocking |-> blocking, events |-> events]

SetLocals(s) ==
    /\ pos' = s.pos /\ team' = s.team /\ time' = s.time /\ flag' = s.flag
    /\ powerups' = s.powerups /\ preventing' = s.preventing
    /\ buttoning' = s.buttoning /\ blocking' = s.blocking /\ events' = s.events

\* entry of player_events: lines 183-192
Call ==
    /\ pc \in {"new", "done"}
    /\ calls < MaxCalls
    /\ SetLocals(EntryState(pos, start_team))
    /\ calls' = calls + 1
    /\ first_events' = IF pc = "done" THEN events ELSE first_events
    /\ pc' = "loop"
    /\ UNCHANGED <<data, start_team, duration>>
    /\ UNCHANGED harnessVars
    /\ UNCHANGED footerVars
    /\ UNCHANGED matchVars

\* one pass of the per-tick loop: lines 194-324
DecodeTick ==
    /\ pc = "loop"
    /\ LoopGuard(data, pos)
    /\ SetLocals(TickStep(data, Locals))
    /\ UNCHANGED <<data, pc, start_team, duration, calls, first_events>>
    /\ UNCHANGED harnessVars
    /\ UNCHANGED footerVars
    /\ UNCHANGED matchVars

\* loop exit and the final push: lines 325-326
PushEnd ==
    /\ pc = "loop"
    /\ ~LoopGuard(data, pos)
    /\ events' = Append(events, EndEvent(Locals, duration))
    /\ pc' = "done"
    /\ UNCHANGED <<data, pos, start_team, duration, team, time, flag, powerups,
                   preventing, buttoning, blocking, calls, first_events>>
    /\ UNCHANGED harnessVars
    /\ UNCHANGED footerVars
    /\ UNCHANGED matchVars

DecodeNext == Call \/ DecodeTick \/ PushEnd

DecodeSpec == DecodeInit /\ [][DecodeNext]_vars

(***************************************************************************)
(* MatchSpec: process_ranked_match on one MatchLog (pipeline               *)
(* "event_processor"), and get_relevant_events on it ("ranked_ratings").   *)
(* Players 0..5 are fixed (alternating Red / Blue, empty logs); the last   *)
(* MaxFreePlayers players are drawn from FreePlayerChoices.                *)
(***************************************************************************)
\* 0x80: team change, direction 0 (None -> Red: Join; Red -> Blue: Switch)
\* 0xC0: team change, direction 1 (None -> Blue: Join; otherwise Quit)
\* 0x48: pop + grab (Grab then Drop in one tick)
\* 0x00 0x00 0xC0: an empty tick, then the 0xC0 tick at time 2
\* 0x20: one return (Return at tick 1)
\* 0x84 0x00 0x08: grab + team change (Grab, Switch at tick 1), then a grab at tick 2
FreePlayerChoices ==
    { [team |-> 0, events |-> <<>>], [team |-> 1, events |-> <<>>],
      [team |-> 2, events |-> <<>>], [team |-> 3, events |-> <<>>],
      [team |-> 0, events |-> <<128>>], [team |-> 1, events |-> <<192>>],
      [team |-> 2, events |-> <<0, 0, 192>>], [team |-> 1, events |-> <<72>>],
      [team |-> 2, events |-> <<72>>], [team |-> 1, events |-> <<32>>],
      [team |-> 1, events |-> <<132, 0, 8>>] }

MatchDurations == {10799, 10800, 10802}

FixedPlayers(n) == [k \in 1..n |-> [team |-> IF k % 2 = 1 THEN 1 ELSE 2, events |-> <<>>]]

BaseMatches ==
    { [official |-> TRUE, group |-> Some(""), time_limit |-> 8, duration |-> dur,
       players |-> FixedPlayers(MinPlayers - MaxFreePlayers) \o free] :
         dur \in MatchDurations, free \in [1..MaxFreePlayers -> FreePlayerChoices] }

FilterVariants(m) ==
    { m, [m EXCEPT !.official = FALSE], [m EXCEPT !.group = None],
      [m EXCEPT !.group = Some("pub")], [m EXCEPT !.time_limit = 10],
      [m EXCEPT !.players = Tail(@)] }

MatchInit ==
    /\ match_log \in UNION {FilterVariants(m) : m \in BaseMatches}
    /\ pipeline \in {"event_processor", "ranked_ratings"}
    /\ pc = "filter"
    /\ collected = <<>> /\ relevant_events = <<>>
    /\ red_team = <<>> /\ blue_team = <<>>
    /\ idx = 0 /\ returned = "pending" /\ panicked = FALSE
    /\ IdleEngine
    /\ data = <<>> /\ pos = 0
    /\ IdleHarness /\ IdleLayout /\ IdleFooter /\ IdleDecode

otherVars == <<data, pos, op, ret, pos0, oob, data2, pos2, ret2,
               start_team, duration, team, time, flag, powerups,
               preventing, buttoning, blocking, events, calls, first_events, layout, width>>

\* event_processor.rs lines 12-19 / ranked_ratings.rs lines 37-41
Filter ==
    /\ pc = "filter"
    /\ IF Eligible(match_log)
       THEN pc' = "collect" /\ returned' = returned
       ELSE pc' = "done" /\ returned' = "None"
    /\ UNCHANGED <<match_log, pipeline, collected, relevant_events, idx, panicked>>
    /\ UNCHANGED rosterVars
    /\ UNCHANGED engineVars
    /\ UNCHANGED otherVars

\* event_processor.rs lines 22-59: stats initialised, every player decoded,
\* starting rosters built, relevant events pushed
Collect ==
    /\ pc = "collect"
    /\ pipeline = "event_processor"
    /\ IF SomeTeamUnparseable(match_log)
       THEN /\ panicked' = TRUE
            /\ pc' = "panic"
            /\ UNCHANGED <<collected, relevant_events>>
            /\ UNCHANGED rosterVars
            /\ UNCHANGED engineVars
       ELSE /\ relevant_events' = CollectFrom(match_log, 0, pipeline)
            /\ collected' = relevant_events'
            /\ red_team' = InitialRoster(match_log, "Red")
            /\ blue_team' = InitialRoster(match_log, "Blue")
            /\ player_stats' = [k \in 1..Len(match_log.players) |-> DefaultStats]
            /\ pc' = "sort"
            /\ UNCHANGED <<cap_diff, garbage_time_cap_diff, red_fc, blue_fc,
                           red_grab_time, blue_grab_time, panicked, records>>
    /\ UNCHANGED <<match_log, pipeline, idx, returned>>
    /\ UNCHANGED otherVars

\* ranked_ratings.rs lines 175-246: get_relevant_events up to its sort
CollectRatings ==
    /\ pc = "collect"
    /\ pipeline = "ranked_ratings"
    /\ IF SomeTeamUnparseable(match_log)
       THEN /\ panicked' = TRUE
            /\ pc' = "panic"
            /\ UNCHANGED <<collected, relevant_events>>
       ELSE /\ relevant_events' = CollectFrom(match_log, 0, pipeline)
            /\ collected' = relevant_events'
            /\ pc' = "sort"
            /\ UNCHANGED panicked
    /\ UNCHANGED <<match_log, pipeline, idx, returned>>
    /\ UNCHANGED rosterVars
    /\ UNCHANGED engineVars
    /\ UNCHANGED otherVars

\* event_processor.rs line 62 / ranked_ratings.rs line 248
Sort ==
    /\ pc = "sort"
    /\ relevant_events' \in sort_unstable_by_key(relevant_events)
    /\ idx' = 1
    /\ pc' = IF pipeline = "event_processor" THEN "replay" ELSE "done"
    /\ UNCHANGED <<match_log, pipeline, collected, returned, panicked>>
    /\ UNCHANGED rosterVars
    /\ UNCHANGED engineVars
    /\ UNCHANGED otherVars

EngineState ==
    [cap_diff |-> cap_diff, garbage_time_cap_diff |-> garbage_time_cap_diff,
     red_fc |-> red_fc, blue_fc |-> blue_fc, red_grab_time |-> red_grab_time,
     blue_grab_time |-> blue_grab_time, player_stats |-> player_stats]

\* one pass of `for event in relevant_events.iter()`: lines 72-111
ReplayEvent ==
    /\ pc = "replay"
    /\ idx <= Len(relevant_events)
    /\ LET e == relevant_events[idx]
           r == RosterStep(e, match_log.duration, red_team, blue_team)
           st == process_event(e, EngineState)
       IN /\ red_team' = r.red
          /\ blue_team' = r.blue
          /\ cap_diff' = st.cap_diff
          /\ garbage_time_cap_diff' = st.garbage_time_cap_diff
          /\ red_fc' = st.red_fc /\ blue_fc' = st.blue_fc
          /\ red_grab_time' = st.red_grab_time /\ blue_grab_time' = st.blue_grab_time
          /\ player_stats' = st.player_stats
    /\ idx' = idx + 1
    /\ UNCHANGED <<match_log, pipeline, collected, relevant_events, returned, panicked, pc,
                   records>>
    /\ UNCHANGED otherVars

\* lines 113-134
Return ==
    /\ pc = "replay"
    /\ idx > Len(relevant_events)
    /\ returned' = IF IsFourVsFour(red_team, blue_team) THEN "Some" ELSE "None"
    /\ pc' = "done"
    /\ UNCHANGED <<match_log, pipeline, collected, relevant_events, idx, panicked>>
    /\ UNCHANGED rosterVars
    /\ UNCHANGED engineVars
    /\ UNCHANGED otherVars

MatchNext == Filter \/ Collect \/ CollectRatings \/ Sort \/ ReplayEvent \/ Return

MatchSpec == MatchInit /\ [][MatchNext]_vars

(***************************************************************************)
(* EngineSpec: RankedStatConfig::process_event called on the events of a   *)
(* time-ordered timeline, one call per event, as the replay loop of        *)
(* process_ranked_match calls it.  Player 0 plays Red, player 1 Blue.  The  *)
(* engine starts in the state it has after up to MaxLead Captures by one   *)
(* player before tick 19800 (no garbage time yet).  relevant_events holds  *)
(* the event of the last call, idx counts the calls.                       *)
(***************************************************************************)
EngineTimes == {19800, 19801, 21600, 21601, 23400, 23401}

EnginePlayerTeam(i) == IF i = 0 THEN "Red" ELSE "Blue"

EngineEvents ==
    { [time |-> t, event_type |-> k, player_index |-> i, team |-> EnginePlayerTeam(i)] :
         t \in EngineTimes, k \in RELEVANT_EVENTS, i \in {0, 1} }

EngineInit ==
    /\ pc = "engine"
    /\ relevant_events = <<>> /\ idx = 0
    /\ cap_diff \in (0 - MaxLead)..MaxLead
    /\ garbage_time_cap_diff = 0
    /\ red_fc = None /\ blue_fc = None /\ red_grab_time = None /\ blue_grab_time = None
    /\ player_stats = <<[DefaultStats EXCEPT !.caps = IF cap_diff > 0 THEN cap_diff ELSE 0],
                        [DefaultStats EXCEPT !.caps = IF cap_diff < 0 THEN 0 - cap_diff ELSE 0]>>
    /\ match_log = <<>> /\ pipeline = "none" /\ collected = <<>>
    /\ red_team = <<>> /\ blue_team = <<>>
    /\ returned = "pending" /\ panicked = FALSE
    /\ records = <<>>
    /\ data = <<>> /\ pos = 0
    /\ IdleHarness /\ IdleLayout /\ IdleFooter /\ IdleDecode

SetEngineState(st) ==
    /\ cap_diff' = st.cap_diff
    /\ garbage_time_cap_diff' = st.garbage_time_cap_diff
    /\ red_fc' = st.red_fc /\ blue_fc' = st.blue_fc
    /\ red_grab_time' = st.red_grab_time /\ blue_grab_time' = st.blue_grab_time
    /\ player_stats' = st.player_stats

\* event_processor.rs lines 100-110: C::process_event on the next event
FeedEvent ==
    /\ pc = "engine"
    /\ idx < MaxEngineEvents
    /\ \E e \in EngineEvents :
          /\ relevant_events # <<>> => e.time >= relevant_events[1].time
          /\ relevant_events' = <<e>>
          /\ SetEngineState(process_event(e, EngineState))
    /\ idx' = idx + 1
    /\ UNCHANGED <<match_log, pipeline, collected, returned, panicked, pc, records>>
    /\ UNCHANGED rosterVars
    /\ UNCHANGED otherVars

EngineNext == FeedEvent

EngineSpec == EngineInit /\ [][EngineNext]_vars

(***************************************************************************)
(* PostSpec: RankedStatConfig::post_process_stats called once on a         *)
(* time-ordered timeline of up to MaxPostEvents events and fresh stat      *)
(* records.  Players 0 and 1 play Red, player 2 Blue.  The timeline is     *)
(* drawn from one of the event families below; events of equal tick stand  *)
(* in any order.                                                           *)
(***************************************************************************)
\* match_log.duration of the timelines
PostDuration == 24000

PostPlayerTeam(i) == IF i = 2 THEN "Blue" ELSE "Red"

Ev(k, t, i) == [time |-> t, event_type |-> k, player_index |-> i, team |-> PostPlayerTeam(i)]

\* a drop of player 0 at 100, teammate and opposing grabs around the
\* 60-tick window, captures and a late drop
HandoffEvents ==
    { Ev("Drop", 100, 0), Ev("Grab", 120, 0), Ev("Grab", 130, 1), Ev("Grab", 160, 1),
      Ev("Grab", 161, 1), Ev("Grab", 140, 2), Ev("Capture", 300, 1), Ev("Capture", 200, 2),
      Ev("Drop", 430, 1), Ev("Tag", 250, 2) }

\* a return of player 0 at 1000, opposing grabs around the 300-tick window,
\* the holder's drop and later events
ResetEvents ==
    { Ev("Return", 1000, 0), Ev("Grab", 1100, 2), Ev("Grab", 1300, 2), Ev("Grab", 1301, 2),
      Ev("Drop", 1200, 2), Ev("Tag", 1399, 0), Ev("Tag", 1500, 0), Ev("Grab", 1150, 1),
      Ev("Capture", 1250, 2) }

\* a prevent interval of player 0 from 500 to 800 and grabs around it
PreventEvents ==
    { Ev("StartPrevent", 500, 0), Ev("StopPrevent", 800, 0), Ev("Grab", 499, 1),
      Ev("Grab", 500, 1), Ev("Grab", 650, 1), Ev("Grab", 800, 1), Ev("Grab", 801, 1),
      Ev("Grab", 650, 2), Ev("Grab", 650, 0), Ev("StopPrevent", 700, 1) }

\* a capture of player 0 at 2000, opposing pops around the 120-tick window
\* before it, a second capture whose window overlaps the first, a capture
\* before tick 120 with a pop ahead of it, a quit with
\* and without an open hold, a drop by a player who holds nothing, and one
\* event of each remaining kind of RELEVANT_EVENTS
KeypopEvents ==
    { Ev("Capture", 2000, 0), Ev("Pop", 1879, 2), Ev("Pop", 1880, 2), Ev("Pop", 1990, 1),
      Ev("Grab", 1900, 0), Ev("Return", 1950, 2), Ev("Powerup", 1960, 1),
      Ev("DuplicatePowerup", 1970, 2), Ev("Quit", 2100, 1), Ev("Quit", 2100, 0),
      Ev("Drop", 1980, 1), Ev("Capture", 2050, 1), Ev("Pop", 1940, 2),
      Ev("Pop", 10, 0), Ev("Capture", 100, 2) }

\* a drop of player 0 at 2320 after grabs 120 and 119 ticks earlier, and
\* captures of either team around the 600-tick window after it
FlaccidEvents ==
    { Ev("Grab", 2200, 0), Ev("Grab", 2201, 0), Ev("Drop", 2320, 0), Ev("Capture", 2920, 2),
      Ev("Capture", 2921, 2), Ev("Capture", 2500, 1), Ev("Grab", 2300, 1), Ev("Tag", 2400, 2) }

\* captures after tick 390 * 60 by both teams: the third of a team that
\* took the first two falls into garbage time
GarbageEvents ==
    { Ev("Capture", 23390, 2), Ev("Capture", 23401, 0), Ev("Capture", 23402, 1),
      Ev("Capture", 23403, 0), Ev("Capture", 23404, 2) }

\* events around the end of the match (tick PostDuration) and around
\* EIGHT_MINUTES: intervals opened before and after the match duration
LateEvents ==
    { Ev("Grab", 23990, 0), Ev("Grab", 24001, 1), Ev("Drop", 24500, 1),
      Ev("StartPrevent", 24100, 2), Ev("StopPrevent", 24200, 2), Ev("Capture", 24300, 0),
      Ev("Grab", 28801, 2) }

PostFamilies ==
    {HandoffEvents, ResetEvents, PreventEvents, KeypopEvents, FlaccidEvents, GarbageEvents,
     LateEvents}

\* the time-ordered sequences of up to n distinct events of A
RECURSIVE Timelines(_, _)
Timelines(A, n) ==
    IF n = 0 THEN {<<>>}
    ELSE LET shorter == Timelines(A, n - 1)
         IN shorter \cup
            { Append(x[1], x[2]) :
                x \in { y \in shorter \X A :
                          /\ Len(y[1]) = n - 1
                          /\ \A k \in 1..Len(y[1]) : y[1][k] # y[2]
                          /\ y[1] # <<>> => y[2].time >= y[1][Len(y[1])].time } }

PostInit ==
    /\ pc = "post"
    /\ relevant_events \in UNION {Timelines(A, MaxPostEvents) : A \in PostFamilies}
    /\ red_team = <<0, 1>> /\ blue_team = <<2>>
    /\ player_stats = <<DefaultStats, DefaultStats, DefaultStats>>
    /\ records = [stats |-> <<DefaultGameStats, DefaultGameStats, DefaultGameStats>>,
                  red_grab_time |-> None, blue_grab_time |-> None,
                  first8 |-> [stats |-> <<DefaultGameStats, DefaultGameStats, DefaultGameStats>>,
                              red_grab_time |-> None, blue_grab_time |-> None]]
    /\ cap_diff = 0 /\ garbage_time_cap_diff = 0
    /\ red_fc = None /\ blue_fc = None /\ red_grab_time = None /\ blue_grab_time = None
    /\ match_log = <<>> /\ pipeline = "none" /\ collected = <<>>
    /\ idx = 0 /\ returned = "pending" /\ panicked = FALSE
    /\ data = <<>> /\ pos = 0
    /\ IdleHarness /\ IdleLayout /\ IdleFooter /\ IdleDecode

\* ranked_analysis.rs lines 52-180 and records.rs lines 173 and 193-228: the
\* next event of the timeline goes through RankedStatConfig::process_event,
\* through RecordsCollector::process_event with cutoff = match duration and,
\* if its tick is at most EIGHT_MINUTES, through the first-8-minutes pass
PostReplay ==
    /\ pc = "post"
    /\ idx < Len(relevant_events)
    /\ SetEngineState(process_event(relevant_events[idx + 1], EngineState))
    /\ records' = [process_event_static(relevant_events[idx + 1], PostDuration, records)
                       EXCEPT !.first8 =
                           IF relevant_events[idx + 1].time <= EIGHT_MINUTES
                           THEN process_event_static(relevant_events[idx + 1], EIGHT_MINUTES, @)
                           ELSE @]
    /\ idx' = idx + 1
    /\ UNCHANGED <<match_log, pipeline, collected, relevant_events, returned, panicked, pc>>
    /\ UNCHANGED rosterVars
    /\ UNCHANGED otherVars

\* records.rs lines 230-234, after the last event was processed:
\* finalize_time_stats on every player's full-game and first-8-minutes stats.
\* A subtraction below zero either panics or wraps, as the build decides.
Finalize ==
    /\ pc = "post"
    /\ idx = Len(relevant_events)
    /\ \/ /\ \E p \in 1..Len(records.stats) :
                 \/ FinalizeUnderflows(records.stats[p], PostDuration, PostDuration)
                 \/ FinalizeUnderflows(records.first8.stats[p], PostDuration, EIGHT_MINUTES)
          /\ panicked' = TRUE
          /\ pc' = "panic"
          /\ UNCHANGED records
       \/ /\ records' =
                [records EXCEPT
                   !.stats = [p \in 1..Len(@) |->
                                 finalize_time_stats(@[p], PostDuration, PostDuration)],
                   !.first8.stats = [p \in 1..Len(@) |->
                                        finalize_time_stats(@[p], PostDuration, EIGHT_MINUTES)]]
          /\ pc' = "finalized"
          /\ UNCHANGED panicked
    /\ UNCHANGED <<match_log, pipeline, collected, relevant_events, idx, returned,
                   cap_diff, garbage_time_cap_diff, red_fc, blue_fc,
                   red_grab_time, blue_grab_time, player_stats>>
    /\ UNCHANGED rosterVars
    /\ UNCHANGED otherVars

\* ranked_analysis.rs lines 182-276, after the last event was processed
PostProcess ==
    /\ pc = "finalized"
    /\ idx = Len(relevant_events)
    /\ player_stats' = post_process_stats(relevant_events, player_stats, red_team, blue_team)
    /\ pc' = "posted"
    /\ UNCHANGED <<match_log, pipeline, collected, relevant_events, idx, returned, panicked,
                   cap_diff, garbage_time_cap_diff, red_fc, blue_fc,
                   red_grab_time, blue_grab_time, records>>
    /\ UNCHANGED rosterVars
    /\ UNCHANGED otherVars

PostNext == PostReplay \/ Finalize \/ PostProcess

PostSpec == PostInit /\ [][PostNext]_vars

(***************************************************************************)
(* LayoutSpec: EventsReader::map_layout called once on a fresh reader.     *)
(* layout holds one run [tile, count] per pass of the loop.                *)
(***************************************************************************)
\* byte values the layout harness builds its buffers from
\* 0x00: tile 0, footer 0      0x04: tile code 1, footer 0
\* 0x05: tile code 1, footer of one byte     0x03: tile 0, footer of three bytes
\* 0x80: tile code 32, which no MapTile has
LayoutBytes == {0, 4, 5, 3, 128}

LayoutWidths == {1, 2, 3}

\* the discriminants of enum MapTile
MapTiles ==
    {0, 20, 110, 120, 230, 10, 11, 12, 13, 14, 30, 40, 160, 161, 170, 180, 50, 140, 150,
     60, 61, 62, 63, 64, 70, 100, 220, 80, 90, 91, 92, 93, 130, 131, 190, 200, 210, 211}

\* the match on read_fixed(6)
TileCode(n) ==
    CASE n = 0 -> 0
      [] n > 0 /\ n < 6 -> n + 9
      [] n >= 6 /\ n < 13 -> n * 10 - 40
      [] n >= 13 /\ n < 17 -> n + 77
      [] n >= 17 /\ n < 20 -> n * 10 - 70
      [] n >= 20 /\ n < 22 -> n + 110
      [] OTHER -> n * 10 - 80

\* layout.len()
RECURSIVE LayoutLen(_)
LayoutLen(l) == IF l = <<>> THEN 0 ELSE l[1].count + LayoutLen(Tail(l))

\* while self.events_remaining() || (layout.len() % width) == 0
LayoutGuard(d, p, l, w) == events_remaining(d, p) \/ LayoutLen(l) % w = 0

LayoutInit ==
    /\ data \in SeqsUpTo(LayoutBytes, MaxLayoutBytes)
    /\ width \in LayoutWidths
    /\ pos = 0
    /\ layout = <<>>
    /\ pc = "layout"
    /\ IdleHarness /\ IdleFooter /\ IdleDecode /\ IdleMatch

\* one pass of the while loop: a tile code, a footer, footer + 1 pushes
LayoutPass ==
    /\ pc = "layout"
    /\ LayoutGuard(data, pos, layout, width)
    /\ Len(layout) < MaxLayoutRuns
    /\ LET code == read_fixed(data, pos, 6)
           foot == read_footer(data, code.pos)
       IN IF TileCode(code.val) \notin MapTiles
          THEN /\ panicked' = TRUE
               /\ pc' = "panic"
               /\ pos' = code.pos
               /\ UNCHANGED layout
          ELSE /\ layout' = Append(layout, [tile |-> TileCode(code.val),
                                            count |-> FooterValue(foot) + 1])
               /\ pos' = foot.pos
               /\ UNCHANGED <<pc, panicked>>
    /\ UNCHANGED <<data, width>>
    /\ UNCHANGED <<harnessVars, footerVars, decodeVars>>
    /\ UNCHANGED <<match_log, pipeline, collected, relevant_events, idx, returned>>
    /\ UNCHANGED <<rosterVars, engineVars>>

\* the loop guard fails: height is computed and the MapLayout returned
LayoutReturn ==
    /\ pc = "layout"
    /\ ~LayoutGuard(data, pos, layout, width)
    /\ pc' = "laid"
    /\ UNCHANGED <<data, pos, layout, width, panicked>>
    /\ UNCHANGED <<harnessVars, footerVars, decodeVars>>
    /\ UNCHANGED <<match_log, pipeline, collected, relevant_events, idx, returned>>
    /\ UNCHANGED <<rosterVars, engineVars>>

LayoutNext == LayoutPass \/ LayoutReturn

LayoutSpec == LayoutInit /\ [][LayoutNext]_vars

(***************************************************************************)
(* Claims                                                                  *)
(***************************************************************************)
\* the stable sort by time: repeatedly take the first element of least time
RECURSIVE StableSortByTime(_)
StableSortByTime(sq) ==
    IF sq = <<>> THEN <<>>
    ELSE LET m == MinTime(sq)
             i == CHOOSE k \in 1..Len(sq) :
                     sq[k].time = m /\ \A j \in 1..(k - 1) : sq[j].time # m
         IN <<sq[i]>> \o StableSortByTime(RemoveAt(sq, i))

\* C1: the fused timeline fed to the stat rules is sorted by tick ascending
\* and events of equal tick keep their source order (player index, then the
\* player's emission order): it is the stable sort of the pushed events.
C1_StableTimeline ==
    (pc \in {"replay", "done"} /\ idx >= 1) =>
        /\ \A i, j \in 1..Len(relevant_events) :
              i < j => relevant_events[i].time <= relevant_events[j].time
        /\ relevant_events = StableSortByTime(collected)

\* C9: for an eligible match process_ranked_match returns a result exactly
\* when, after the whole fused timeline has been replayed, the red and the
\* blue roster each have exactly 4 members; otherwise it returns None.  The
\* only error it can raise is the failed parse of a team value.
C9_ResultIffFourVsFour ==
    /\ (pc = "done" /\ pipeline = "event_processor" /\ Eligible(match_log)) =>
          /\ idx = Len(relevant_events) + 1
          /\ returned \in {"Some", "None"}
          /\ returned = "Some" <=> (Len(red_team) = 4 /\ Len(blue_team) = 4)
          /\ ~panicked
    /\ panicked => SomeTeamUnparseable(match_log)
    /\ (pc # "done" /\ pc # "panic") => returned = "pending"

C9_Witness ==
    /\ pc = "done" /\ pipeline = "event_processor" /\ Eligible(match_log)
    /\ returned = "None"
    /\ Len(InitialRoster(match_log, "Red")) = 4
    /\ Len(InitialRoster(match_log, "Blue")) = 4
    /\ Len(red_team) = 3 /\ Len(blue_team) = 4

\* the events player_events returns for player i (0-based) of match m
DecodedOf(m, i) ==
    PlayerEvents(m.players[i + 1].events, 0, TeamFromUsize(m.players[i + 1].team), m.duration)

\* C10: a player who starts the match on no team and joins Red mid-match is
\* on the red roster after replay, unless removed by an early Quit.
C10_JoinerOnRoster ==
    (pc = "done" /\ pipeline = "event_processor" /\ Eligible(match_log) /\ ~panicked) =>
        \A i \in 0..(Len(match_log.players) - 1) :
            LET evs == DecodedOf(match_log, i)
            IN ( /\ match_log.players[i + 1].team = 0
                 /\ \E k \in 1..Len(evs) : evs[k].event_type = "Join" /\ evs[k].team = "Red"
                 /\ \A k \in 1..Len(evs) : evs[k].event_type # "Quit" )
               => Contains(red_team, i)

\* sq without every occurrence of x, in the order of sq
Without(sq, x) == SelectSeq(sq, LAMBDA y : y # x)

\* C11: during roster replay a Quit whose tick is strictly less than
\* duration - 10800 removes the quitting player from the roster they are on
\* and leaves the other players where they are; a Quit at or after that tick
\* changes no roster; duration - 10800 is never negative during replay.
C11_QuitRemovesIffEarly ==
    [][(pc = "replay" /\ idx <= Len(relevant_events)
        /\ relevant_events[idx].event_type = "Quit") =>
          /\ match_log.duration >= 10800
          /\ IF relevant_events[idx].time < match_log.duration - 10800
             THEN /\ red_team' = Without(red_team, relevant_events[idx].player_index)
                  /\ blue_team' = Without(blue_team, relevant_events[idx].player_index)
             ELSE red_team' = red_team /\ blue_team' = blue_team]_vars

C11_Witness ==
    /\ pc = "replay" /\ idx = 3
    /\ relevant_events[1].event_type = "Quit" /\ relevant_events[1].time = 1
    /\ relevant_events[2].event_type = "Quit" /\ relevant_events[2].time = 2
    /\ match_log.duration = 10802
    /\ ~Contains(red_team, relevant_events[1].player_index)
    /\ Contains(blue_team, relevant_events[2].player_index)

Abs(n) == IF n < 0 THEN 0 - n ELSE n

\* the lead of team tm at differential d (red captures minus blue captures)
LeadOf(tm, d) == IF tm = "Red" THEN d ELSE 0 - d

\* the garbage-time test as C12 states it, on tick t and differential d
GarbageTimeAt(t, d) ==
    \/ (t > 19800 /\ Abs(d) >= 4)
    \/ (t > 21600 /\ Abs(d) >= 3)
    \/ (t > 23400 /\ Abs(d) >= 2)

\* C12: for a Capture processed by RankedStatConfig::process_event the
\* garbage-time test uses the differential before the capture and strict
\* tick bounds 19800 / 21600 / 23400 with |d| >= 4 / 3 / 2; the capturing
\* player's garbage_time_caps and garbage_time_cap_diff move by one exactly
\* when the test holds and the capturing team leads after the capture.  A
\* Capture at 19801 by the team leading by 4 is counted, one at 19801
\* leading by 3 is not, one at 19800 leading by 4 is not.
C12_GarbageTimeBoundary ==
    [][(pc = "engine" /\ idx' = idx + 1 /\ relevant_events'[1].event_type = "Capture") =>
          LET e == relevant_events'[1]
              pi == e.player_index + 1
              lead == LeadOf(e.team, cap_diff)
              counted == GarbageTimeAt(e.time, cap_diff) /\ lead + 1 > 0
              dcaps == player_stats'[pi].garbage_time_caps - player_stats[pi].garbage_time_caps
              ddiff == LeadOf(e.team, garbage_time_cap_diff')
                       - LeadOf(e.team, garbage_time_cap_diff)
          IN /\ dcaps = (IF counted THEN 1 ELSE 0)
             /\ ddiff = (IF counted THEN 1 ELSE 0)
             /\ (e.time = 19801 /\ lead = 4) => (dcaps = 1 /\ ddiff = 1)
             /\ (e.time = 19801 /\ lead = 3) => (dcaps = 0 /\ ddiff = 0)
             /\ (e.time = 19800 /\ lead = 4) => (dcaps = 0 /\ ddiff = 0)]_vars

C12_Witness ==
    /\ pc = "engine" /\ idx = 1
    /\ relevant_events[1].event_type = "Capture" /\ relevant_events[1].time = 19801
    /\ relevant_events[1].team = "Blue"
    /\ cap_diff = -5 /\ garbage_time_cap_diff = -1
    /\ player_stats[2].garbage_time_caps = 1 /\ player_stats[2].caps = 5

\* indices of the Grabs after index i by a teammate of the player of evs[i]
TeammateGrabsAfter(evs, i) ==
    { j \in (i + 1)..Len(evs) :
        /\ evs[j].event_type = "Grab"
        /\ evs[j].team = evs[i].team
        /\ evs[j].player_index # evs[i].player_index }

Least(S) == CHOOSE x \in S : \A y \in S : x <= y

\* the grabber of the Grab at j later captures, with no Grab or Capture by
\* anyone in between
CapturesNext(evs, j) ==
    \E k \in (j + 1)..Len(evs) :
        /\ evs[k].event_type = "Capture"
        /\ evs[k].player_index = evs[j].player_index
        /\ \A m \in (j + 1)..(k - 1) : evs[m].event_type \notin {"Grab", "Capture"}

\* the case of C13 for the Drop at i
HandoffByCapture(evs, i) ==
    /\ evs[i].event_type = "Drop"
    /\ TeammateGrabsAfter(evs, i) # {}
    /\ evs[Least(TeammateGrabsAfter(evs, i))].time <= evs[i].time + 60
    /\ CapturesNext(evs, Least(TeammateGrabsAfter(evs, i)))

\* a Drop at i whose first teammate Grab comes too late, or is directly
\* followed by another Grab: that first Grab earns nothing
HandoffExcluded(evs, i) ==
    \/ TeammateGrabsAfter(evs, i) = {}
    \/ evs[Least(TeammateGrabsAfter(evs, i))].time > evs[i].time + 60
    \/ /\ Least(TeammateGrabsAfter(evs, i)) < Len(evs)
       /\ evs[Least(TeammateGrabsAfter(evs, i)) + 1].event_type = "Grab"

DropsOf(evs, p) ==
    {i \in 1..Len(evs) : evs[i].event_type = "Drop" /\ evs[i].player_index = p}

\* C13: a Drop by P whose first later teammate Grab (by Q) has tick at most
\* 60 after the drop, and after which Q captures with no Grab or Capture in
\* between, earns P exactly one handoff; Q earns none for it; only the first
\* teammate Grab counts, so a Drop whose first teammate Grab fails earns
\* nothing.  Per player: handoffs lies between the number of such Drops and
\* the number of the player's Drops not excluded.
C13_HandoffByCapture ==
    pc = "posted" =>
        \A p \in 0..(Len(player_stats) - 1) :
            /\ Cardinality({i \in DropsOf(relevant_events, p) :
                               HandoffByCapture(relevant_events, i)})
                  <= player_stats[p + 1].handoffs
            /\ player_stats[p + 1].handoffs
                  <= Cardinality({i \in DropsOf(relevant_events, p) :
                                     ~HandoffExcluded(relevant_events, i)})

C13_Witness ==
    /\ pc = "posted"
    /\ relevant_events = <<Ev("Drop", 100, 0), Ev("Grab", 130, 1), Ev("Tag", 250, 2),
                           Ev("Capture", 300, 1)>>
    /\ player_stats[1].handoffs = 1 /\ player_stats[2].handoffs = 0

\* indices of the opposing Grabs after the Return at i with tick <= T + 300
OpposingGrabsInWindow(evs, i) ==
    { j \in (i + 1)..Len(evs) :
        /\ evs[j].event_type = "Grab"
        /\ Opposing(evs[j].team, evs[i].team)
        /\ evs[j].time <= evs[i].time + 300 }

\* the holder of the Grab at j drops less than 300 ticks after grabbing
DropsEarly(evs, j) ==
    \E k \in (j + 1)..Len(evs) :
        /\ evs[k].event_type = "Drop"
        /\ evs[k].player_index = evs[j].player_index
        /\ evs[k].time < evs[j].time + 300

\* the case of C14 for the Return at i
ResetByShortHold(evs, i) ==
    /\ evs[i].event_type = "Return"
    /\ Cardinality(OpposingGrabsInWindow(evs, i)) = 1
    /\ \A j \in OpposingGrabsInWindow(evs, i) : DropsEarly(evs, j)

\* C14: a Return followed by exactly one opposing Grab within 300 ticks
\* whose holder drops less than 300 ticks after grabbing earns the returning
\* player a reset, whatever comes later in the timeline: every player has at
\* least as many resets as Returns of that kind.
C14_ResetCredited ==
    pc = "posted" =>
        \A p \in 0..(Len(player_stats) - 1) :
            Cardinality({i \in 1..Len(relevant_events) :
                            /\ relevant_events[i].player_index = p
                            /\ ResetByShortHold(relevant_events, i)})
               <= player_stats[p + 1].resets

\* the StopPrevent events of the player of the StartPrevent at i after i
StopsAfter(evs, i) ==
    { j \in (i + 1)..Len(evs) :
        /\ evs[j].event_type = "StopPrevent"
        /\ evs[j].player_index = evs[i].player_index }

\* a Grab of the team of the StartPrevent at i with a tick in [s, e], where
\* e is the tick of the player's next StopPrevent; own = TRUE counts the
\* preventing player's own Grabs as well, own = FALSE only those of the others
TeamGrabInside(evs, i, own) ==
    \E k \in 1..Len(evs) :
        /\ evs[k].event_type = "Grab"
        /\ evs[k].team = evs[i].team
        /\ own \/ evs[k].player_index # evs[i].player_index
        /\ evs[k].time >= evs[i].time
        /\ evs[k].time <= evs[Least(StopsAfter(evs, i))].time

\* sum of e - s over the prevent intervals of player p from index i on;
\* clean = TRUE restricts the sum to the intervals without TeamGrabInside
RECURSIVE PreventSum(_, _, _, _, _, _)
PreventSum(evs, p, i, clean, own, acc) ==
    IF i > Len(evs) THEN acc
    ELSE PreventSum(evs, p, i + 1, clean, own,
                    IF /\ evs[i].event_type = "StartPrevent"
                       /\ evs[i].player_index = p
                       /\ StopsAfter(evs, i) # {}
                       /\ clean => ~TeamGrabInside(evs, i, own)
                    THEN acc + evs[Least(StopsAfter(evs, i))].time - evs[i].time
                    ELSE acc)

ScannerFields == {"keypops", "handoffs", "goodprevent", "resets", "badflaccids", "sparkedouts"}

\* C16: when process_ranked_match returns a result, the returned stat
\* records carry the credits of the pattern scanners run over the completed
\* fused timeline with the final rosters.
C16_ScannersRan ==
    (pipeline = "event_processor" /\ returned = "Some") =>
        \A p \in 1..Len(player_stats) : \A f \in ScannerFields :
            player_stats[p][f] =
                post_process_stats(relevant_events,
                                   [k \in 1..Len(player_stats) |-> DefaultStats],
                                   red_team, blue_team)[p][f]

\* C17: a match with a player whose team value is not 0, 1 or 2 produces no
\* result and hands control back to the caller, which can go on with the
\* next match: process_ranked_match never returns Some for it and never
\* panics on it.
C17_AbortedMatchSkippable ==
    (pipeline = "event_processor" /\ SomeTeamUnparseable(match_log)) =>
        (returned # "Some" /\ ~panicked)

EventKinds(evs) == [i \in 1..Len(evs) |-> evs[i].event_type]

CountKind(evs, k) == Cardinality({i \in 1..Len(evs) : evs[i].event_type = k})

\* C2: the sequence returned by player_events contains exactly one End event,
\* it is the last element and its tick is the supplied duration.
C2_ExactlyOneEndAtDuration ==
    pc = "done" =>
        /\ Len(events) >= 1
        /\ events[Len(events)].event_type = "End"
        /\ events[Len(events)].time = duration
        /\ CountKind(events, "End") = 1

C2_Witness ==
    /\ pc = "done" /\ Len(events) >= 3
    /\ events[Len(events) - 1].time # duration

\* every pair of Grab events of evs has an event of a kind in K between them
GrabsSeparatedBy(evs, K) ==
    \A i, j \in 1..Len(evs) :
        (i < j /\ evs[i].event_type = "Grab" /\ evs[j].event_type = "Grab")
            => \E k \in (i + 1)..(j - 1) : evs[k].event_type \in K

\* C3 (as stated): between any two Grab events of a stream there is at least
\* one Drop, Capture, FlaglessCapture or Pop.
C3_Original ==
    GrabsSeparatedBy(events, {"Drop", "Capture", "FlaglessCapture", "Pop"})

\* C3 (amended): between any two Grab events of a stream there is at least one
\* Drop, Capture, FlaglessCapture, Pop, Switch or Quit.
C3_GrabsSeparated ==
    GrabsSeparatedBy(events, {"Drop", "Capture", "FlaglessCapture", "Pop", "Switch", "Quit"})

C3_Witness ==
    /\ pc = "done"
    /\ \E i, j \in 1..Len(events) :
          /\ i < j /\ events[i].event_type = "Grab" /\ events[j].event_type = "Grab"
          /\ \E k \in (i + 1)..(j - 1) : events[k].event_type = "Switch"
          /\ \A k \in (i + 1)..(j - 1) : events[k].event_type \notin {"Drop", "Capture"}

\* fixed + minimum of a is less than that of b (compared without forming
\* the sums, which may need more than 31 bits)
FooterLess(a, b) == a.fixed - b.fixed < b.minimum - a.minimum

\* C4 (as stated): for footers read from the same bit offset, a value decoded
\* with a smaller size selector is strictly below every value decoded with a
\* larger one: the four size classes are disjoint and ordered.
C4_Original ==
    (pc = "footers_read" /\ ret.sel < ret2.sel) => FooterLess(ret, ret2)

\* both selector bits of a footer started at bit p lie inside buffer d
SelectorInside(d, p) == p + 2 <= 8 * Len(d)

\* C4 (amended): the size classes are disjoint and ordered for footers whose
\* two selector bits both lie inside the buffer (the field itself may still be
\* cut short by the end of the buffer).
C4_SizeClassesDisjoint ==
    ( /\ pc = "footers_read" /\ ret.sel < ret2.sel
      /\ SelectorInside(data, pos0) /\ SelectorInside(data2, pos0) )
    => FooterLess(ret, ret2)

C4_Witness ==
    /\ pc = "footers_read"
    /\ ret.sel = 2 /\ ret2.sel = 3 /\ pos0 = 7
    /\ SelectorInside(data, pos0) /\ SelectorInside(data2, pos0)
    /\ ret.fixed = Pow2(ret.size) - 1
    /\ ret2.fixed = 0

BitAt(d, p) == BitOfByte(d[(p \div 8) + 1], p)

\* C5: read_tally at n consecutive 1 bits followed by a 0 bit, all inside the
\* buffer, returns n and leaves the cursor just past that 0 bit.
C5_TallyCorrect ==
    op = "read_tally" =>
        \A n \in 0..(8 * Len(data)) :
            ( /\ pos0 + n < 8 * Len(data)
              /\ \A k \in 0..(n - 1) : BitAt(data, pos0 + k) = 1
              /\ BitAt(data, pos0 + n) = 0 )
            => (ret = n /\ pos = pos0 + n + 1)

C5_Witness ==
    /\ op = "read_tally" /\ ret >= 2 /\ pos0 % 8 = 7
    /\ pos = pos0 + ret + 1 /\ pos < 8 * Len(data)

\* C6: at the end of the buffer read_bool returns false without advancing
\* or indexing outside the buffer, pos never exceeds 8 * len, and read_fixed
\* and read_tally return 0 there.
C6_ExhaustedReads ==
    /\ pos <= 8 * Len(data)
    /\ ~oob
    /\ (op # "new" /\ (pos0 \div 8) >= Len(data)) =>
          /\ pos = pos0
          /\ (op = "read_bool" => ret = FALSE)
          /\ (op \in {"read_fixed", "read_tally"} => ret = 0)

C6_Witness ==
    /\ op = "read_bool" /\ Len(data) > 0 /\ pos0 = 8 * Len(data) /\ ret = FALSE

\* C7: player_events terminates: while bits remain, a pass of the per-tick
\* loop stays in the loop, advances the cursor by at least one bit and never
\* moves it past the end of the buffer (so at most 8 * len passes happen and
\* every tally read inside a pass ends); once the cursor is at the end the next
\* step leaves the loop and returns.
C7_Terminates ==
    [][(pc = "loop") =>
          IF events_remaining(data, pos)
          THEN pc' = "loop" /\ pos' > pos /\ pos' <= 8 * Len(data)
          ELSE pc' = "done" /\ pos' = pos]_vars

C7_Witness ==
    /\ pc = "done" /\ calls = 1 /\ pos = 8 * Len(data) /\ Len(data) = MaxDecodeBytes
    /\ Len(events) = 1

\* C8: a second call of player_events on the same reader with the same
\* starting team and duration returns the same sequence as the first.
C8_Deterministic ==
    (pc = "done" /\ calls >= 2) => events = first_events

C8_Witness ==
    /\ pc = "done" /\ calls = 2 /\ Len(events) >= 3 /\ events = first_events

\* the events of evs of the kinds in S, in order
OfKinds(evs, S) == SelectSeq(evs, LAMBDA e : e.event_type \in S)

\* the events of the two kinds alternate, beginning with startKind
Alternates(evs, startKind, stopKind) ==
    LET ts == OfKinds(evs, {startKind, stopKind})
    IN \A i \in 1..Len(ts) :
           ts[i].event_type = IF i % 2 = 1 THEN startKind ELSE stopKind

\* C18: in every sequence returned by player_events StartPrevent and
\* StopPrevent strictly alternate beginning with StartPrevent, and so do
\* StartButton / StopButton and StartBlock / StopBlock, also across Quit and
\* Switch.
C18_TogglesAlternate ==
    pc = "done" =>
        /\ Alternates(events, "StartPrevent", "StopPrevent")
        /\ Alternates(events, "StartButton", "StopButton")
        /\ Alternates(events, "StartBlock", "StopBlock")

\* a returned sequence in which a prevent interval is opened, the player
\* quits or switches, and the interval is closed afterwards
C18_Witness ==
    /\ pc = "done"
    /\ \E i, j, k \in 1..Len(events) :
          /\ i < j /\ j < k
          /\ events[i].event_type = "StartPrevent"
          /\ events[j].event_type \in {"Quit", "Switch"}
          /\ events[k].event_type = "StopPrevent"

\* C19: the quick_returns counter of every player is 0 after processing any
\* sequence of events with process_event and after post_process_stats.
C19_QuickReturnsZero ==
    pc \in {"post", "posted"} =>
        \A p \in 1..Len(player_stats) : player_stats[p].quick_returns = 0

\* a Return was processed and the scanners have run
C19_Witness ==
    /\ pc = "posted"
    /\ \E p \in 1..Len(player_stats) :
          /\ player_stats[p].returns >= 1
          /\ player_stats[p].resets >= 1
          /\ player_stats[p].quick_returns = 0

\* position of an event kind in the emission order of one tick
EmissionRank(k) ==
    CASE k = "Join" -> 1
      [] k = "Return" -> 2
      [] k = "Tag" -> 3
      [] k = "Grab" -> 4
      [] k \in {"Capture", "FlaglessCapture"} -> 5
      [] k \in {"Powerdown", "Powerup"} -> 6
      [] k = "DuplicatePowerup" -> 7
      [] k \in {"StartPrevent", "StopPrevent"} -> 8
      [] k \in {"StartButton", "StopButton"} -> 9
      [] k \in {"StartBlock", "StopBlock"} -> 10
      [] k \in {"Drop", "Pop"} -> 11
      [] k \in {"Switch", "Quit"} -> 12
      [] OTHER -> 13

\* the ranks of which a tick can emit several events
RepeatableRanks == {2, 3, 5, 6, 7}

\* the powerup bit an event changed, given the powerups value before it
ChangedBit(before, after) == IF after >= before THEN after - before ELSE before - after

\* the events one pass of the per-tick loop appended
TickEvents == SubSeq(events', Len(events) + 1, Len(events'))

\* C20: the events of one decoded tick all carry the tick's time and come in
\* the order Join, Returns, Tags, Grab, capture events, Powerdown / Powerup
\* from the lowest changed bit to the highest, DuplicatePowerups,
\* Start/StopPrevent, Start/StopButton, Start/StopBlock, Drop or Pop, and
\* last Switch or Quit.
C20_EmissionOrder ==
    [][(pc = "loop" /\ pc' = "loop") =>
          /\ \A i \in 1..Len(TickEvents) : TickEvents[i].time = time'
          /\ \A i, j \in 1..Len(TickEvents) :
                i < j =>
                   /\ EmissionRank(TickEvents[i].event_type) <= EmissionRank(TickEvents[j].event_type)
                   /\ EmissionRank(TickEvents[i].event_type) = EmissionRank(TickEvents[j].event_type)
                         => EmissionRank(TickEvents[i].event_type) \in RepeatableRanks
                   /\ (EmissionRank(TickEvents[i].event_type) = 6 /\ j = i + 1
                         /\ EmissionRank(TickEvents[j].event_type) = 6)
                         => ChangedBit(IF i = 1 THEN powerups ELSE TickEvents[i - 1].powerups,
                                       TickEvents[i].powerups)
                              < ChangedBit(TickEvents[i].powerups, TickEvents[j].powerups)]_vars

\* a returned sequence with a tick that emitted events of five different
\* positions of the order, and a tick with returns, tags and a capture event
C20_Witness ==
    /\ pc = "done"
    /\ \E t \in {events[i].time : i \in 1..(Len(events) - 1)} :
          Cardinality({EmissionRank(events[i].event_type) :
                          i \in {k \in 1..(Len(events) - 1) : events[k].time = t}}) >= 5
    /\ \E i, j \in 1..(Len(events) - 1) :
          /\ i < j /\ events[i].time = events[j].time
          /\ events[i].event_type \in {"Return", "Tag"}
          /\ events[j].event_type \in {"Powerdown", "Powerup", "DuplicatePowerup",
                                       "StartPrevent", "StopPrevent", "Drop", "Pop"}

\* C21: player_events tracks the current team, so a player who quit gets a
\* Join when put on a team again: between any two Quit events of a returned
\* sequence there is a Join event.
C21_JoinBetweenQuits ==
    pc = "done" =>
        \A i, j \in 1..Len(events) :
            (i < j /\ events[i].event_type = "Quit" /\ events[j].event_type = "Quit")
               => \E k \in (i + 1)..(j - 1) : events[k].event_type = "Join"

\* what the pass of the per-tick loop taken from the current state decoded
ThisTick == TickStep(data, Locals).tick

\* C22: a tick with capture tally k emits exactly k capture events, at most
\* one of them a Capture; a Capture is emitted only while a flag is carried
\* and not kept, it is the first capture event of the tick, and it clears
\* the carried flag for the rest of the tick.
C22_CaptureTally ==
    [][(pc = "loop" /\ pc' = "loop") =>
          LET caps == { i \in 1..Len(TickEvents) :
                          TickEvents[i].event_type \in {"Capture", "FlaglessCapture"} }
              real == { i \in caps : TickEvents[i].event_type = "Capture" }
          IN /\ Cardinality(caps) = ThisTick.caps
             /\ Cardinality(real) <= 1
             /\ \A i \in real :
                   /\ ThisTick.new_flag # "None" /\ ~ThisTick.flag_kept
                   /\ TickEvents[i].flag # "None"
                   /\ \A j \in caps : j >= i
                   /\ \A j \in (i + 1)..Len(TickEvents) : TickEvents[j].flag = "None"
                   /\ flag' = "None"]_vars

\* a returned sequence with a tick that emitted a Capture followed by a
\* FlaglessCapture
C22_Witness ==
    /\ pc = "done"
    /\ \E i \in 1..(Len(events) - 1) :
          /\ events[i].event_type = "Capture"
          /\ events[i + 1].event_type = "FlaglessCapture"
          /\ events[i + 1].time = events[i].time

\* C23: a tick whose pop bit is set emits exactly one of Drop and Pop: Drop
\* when a flag is carried after the tick's Grab and captures, and then the
\* carried flag is cleared, otherwise Pop; a tick whose pop bit is clear emits
\* neither.  A Drop carries a flag state other than none, a Pop carries none.
C23_DropOrPop ==
    [][(pc = "loop" /\ pc' = "loop") =>
          LET dp == { i \in 1..Len(TickEvents) : TickEvents[i].event_type \in {"Drop", "Pop"} }
          IN /\ Cardinality(dp) = IF ThisTick.pop THEN 1 ELSE 0
             /\ \A i \in dp :
                   /\ TickEvents[i].event_type = IF ThisTick.held # "None" THEN "Drop" ELSE "Pop"
                   /\ TickEvents[i].event_type = "Drop" <=> TickEvents[i].flag # "None"
                   /\ \A j \in (i + 1)..Len(TickEvents) : TickEvents[j].flag = "None"
                   /\ flag' = "None"]_vars

\* a returned sequence with a Grab and a Drop in one tick and a Pop in
\* another
C23_Witness ==
    /\ pc = "done"
    /\ \E i, j \in 1..Len(events) :
          /\ i < j /\ events[i].time = events[j].time
          /\ events[i].event_type = "Grab" /\ events[j].event_type = "Drop"
    /\ \E i \in 1..Len(events) : events[i].event_type = "Pop"

\* C24 as stated: in every returned sequence the event ticks are
\* non-decreasing from the first to the last event, the final End included.
C24_Original ==
    pc = "done" =>
        \A i, j \in 1..Len(events) : i < j => events[i].time <= events[j].time

\* C24: the tick of each decoded tick record is the previous one plus
\* 1 + footer value, hence strictly greater, every event of the record
\* carries it, and in every returned sequence the ticks of the decoded events
\* (all but the final End, which carries the supplied duration) are
\* non-decreasing.
C24_TicksMonotonic ==
    [][/\ (pc = "loop" /\ pc' = "loop") =>
             /\ time' = time + 1 + ThisTick.footer
             /\ time' > time
             /\ \A i \in 1..Len(TickEvents) : TickEvents[i].time = time'
       /\ pc' = "done" =>
             \A i, j \in 1..(Len(events') - 1) :
                 i < j => events'[i].time <= events'[j].time]_vars

\* a returned sequence with events of two different tick records and an
\* End that is not before them
C24_Witness ==
    /\ pc = "done"
    /\ Len(events) >= 3
    /\ events[1].time < events[2].time
    /\ events[2].time <= events[Len(events)].time
    /\ events[2].event_type # "End"

\* C25: read_footer leaves the cursor at a byte boundary, so every tick
\* record decoded by player_events starts at a byte boundary and the cursor
\* after its read_footer call, where the record ends, is at one again.
C25_FooterAligns ==
    [][(pc = "loop" /\ pc' = "loop") =>
          /\ pos % 8 = 0
          /\ ThisTick.end % 8 = 0
          /\ pos' = ThisTick.end]_vars

\* the loop is about to decode a second record that starts inside the buffer
C25_Witness ==
    /\ pc = "loop"
    /\ events # <<>>
    /\ pos > 0 /\ pos < 8 * Len(data) /\ pos % 8 = 0

\* the event PostReplay feeds to both rule sets in this step
NextEvent == relevant_events[idx + 1]

\* the step is PostReplay processing an event of kind k
Replays(k) == pc = "post" /\ idx < Len(relevant_events) /\ idx' = idx + 1
              /\ NextEvent.event_type = k

\* C26: a Quit by a player with an open hold adds (quit tick - hold start) to
\* the player's hold and closes the hold, and every Quit increments the
\* player's pop counter by one, in RankedStatConfig::process_event and in
\* RecordsCollector::process_event_static alike.
C26_QuitCountsAsPop ==
    [][Replays("Quit") =>
         LET p == NextEvent.player_index + 1
             t == NextEvent.time
         IN /\ player_stats[p].hold_start # None =>
                  /\ player_stats'[p].hold = player_stats[p].hold + (t - player_stats[p].hold_start[1])
                  /\ player_stats'[p].hold_start = None
            /\ records.stats[p].hold_start # None =>
                  /\ records'.stats[p].hold = records.stats[p].hold + (t - records.stats[p].hold_start[1])
                  /\ records'.stats[p].hold_start = None
            /\ player_stats'[p].ndps = player_stats[p].ndps + 1
            /\ records'.stats[p].pops = records.stats[p].pops + 1]_vars

\* C27: a Drop by a player with no open hold leaves every player's stat
\* record and the running state (both score differentials, flag-carrier index
\* and grab tick of both teams) unchanged; so does a StopPrevent by a player
\* with no open prevent.
C27_DropWithoutHoldNoop ==
    [][/\ (Replays("Drop") /\ player_stats[NextEvent.player_index + 1].hold_start = None)
            => UNCHANGED <<player_stats, cap_diff, garbage_time_cap_diff,
                           red_fc, blue_fc, red_grab_time, blue_grab_time>>
       /\ (Replays("StopPrevent") /\ player_stats[NextEvent.player_index + 1].prevent_start = None)
            => UNCHANGED <<player_stats, cap_diff, garbage_time_cap_diff,
                           red_fc, blue_fc, red_grab_time, blue_grab_time>>]_vars

\* the events of player p among the first n of the timeline that start or end a carry
CarryEvents(p, n) ==
    SelectSeq(SubSeq(relevant_events, 1, n),
              LAMBDA e : e.player_index = p
                         /\ e.event_type \in {"Grab", "Drop", "Capture", "Quit"})

\* the sum, over the Grabs of sq, of the ticks from the Grab to the next event of sq
RECURSIVE CarryTime(_)
CarryTime(sq) ==
    IF Len(sq) < 2 THEN 0
    ELSE (IF sq[1].event_type = "Grab" THEN sq[2].time - sq[1].time ELSE 0)
         + CarryTime(Tail(sq))

\* every Grab of sq is followed by an event that ends the carry
CarriesEnded(sq) ==
    /\ \A k \in 1..Len(sq) : sq[k].event_type = "Grab" => k < Len(sq)
    /\ \A k \in 1..(Len(sq) - 1) :
          sq[k].event_type = "Grab" => sq[k + 1].event_type # "Grab"

\* C28: after RankedStatConfig processed the whole timeline, a player's hold
\* is the total time the player carried a flag: the sum over the player's
\* Grabs of the ticks from the Grab to the player's next Drop, Capture or Quit.
C28_HoldIsCarryTime ==
    (pc = "post" /\ idx = Len(relevant_events)) =>
        \A p \in 0..2 :
            CarriesEnded(CarryEvents(p, idx)) =>
                player_stats[p + 1].hold = CarryTime(CarryEvents(p, idx))

\* C29: on the same timeline RankedStatConfig::process_event and
\* RecordsCollector::process_event_static (cutoff = match duration) give every
\* player the same captures, returns, pops, powerups, hold and prevent.
C29_VariantsAgree ==
    pc = "post" =>
        \A p \in 1..3 :
            /\ player_stats[p].caps = records.stats[p].caps
            /\ player_stats[p].returns = records.stats[p].returns
            /\ player_stats[p].ndps = records.stats[p].pops
            /\ player_stats[p].pups = records.stats[p].pups
            /\ player_stats[p].hold = records.stats[p].hold
            /\ player_stats[p].prevent = records.stats[p].prevent

\* the (Capture, Pop) pairs of the timeline that earn player p a keypop: the
\* Pop is by p, on the team opposing the Capture's, stands before the Capture
\* and has tick >= Capture tick - 120 (0 when the Capture tick is below 120)
KeypopPairs(p) ==
    { x \in (1..Len(relevant_events)) \X (1..Len(relevant_events)) :
        /\ relevant_events[x[1]].event_type = "Capture"
        /\ relevant_events[x[2]].event_type = "Pop"
        /\ x[2] < x[1]
        /\ relevant_events[x[2]].player_index = p
        /\ relevant_events[x[2]].team # relevant_events[x[1]].team
        /\ \/ relevant_events[x[1]].time < 120
           \/ relevant_events[x[2]].time >= relevant_events[x[1]].time - 120 }

\* C30: post_process_stats credits a player one keypop for every Capture and
\* every Pop of that player by the opposing team that precedes the Capture
\* with tick >= Capture tick - 120 (saturating at 0), and no keypop for
\* anything else; a Pop exactly 120 ticks before the Capture counts.
C30_KeypopWindow ==
    pc = "posted" =>
        \A p \in 0..2 : player_stats[p + 1].keypops = Cardinality(KeypopPairs(p))

\* a Pop exactly 120 ticks before an opposing Capture was credited, while a
\* Pop one tick earlier stands in the same timeline
C30_Witness ==
    /\ pc = "posted"
    /\ \E x \in KeypopPairs(2) :
          relevant_events[x[2]].time = relevant_events[x[1]].time - 120
    /\ \E j \in 1..Len(relevant_events) :
          relevant_events[j] = Ev("Pop", 1879, 2)
    /\ player_stats[3].keypops >= 1

\* the grabber of the Grab at j keeps the flag for at least 300 ticks: no
\* Grab or Capture by anyone, and no Drop or Quit of the grabber, has a tick
\* below the grab tick + 300 after it
HoldsFiveSeconds(evs, j) ==
    \A k \in (j + 1)..Len(evs) :
        evs[k].time < evs[j].time + 300 =>
            /\ evs[k].event_type \notin {"Grab", "Capture"}
            /\ evs[k].player_index = evs[j].player_index
                  => evs[k].event_type \notin {"Drop", "Quit"}

\* the case of C31 for the Drop at i
HandoffByHold(evs, i) ==
    /\ evs[i].event_type = "Drop"
    /\ TeammateGrabsAfter(evs, i) # {}
    /\ evs[Least(TeammateGrabsAfter(evs, i))].time <= evs[i].time + 60
    /\ HoldsFiveSeconds(evs, Least(TeammateGrabsAfter(evs, i)))

\* C31: a Drop by P whose first later teammate Grab (by Q) has tick at most
\* 60 after the drop, and after which Q holds for at least 300 ticks before
\* any other Grab or Capture, earns P a handoff even if Q never captures and
\* even if Q still holds when the timeline ends.
C31_HandoffByHold ==
    pc = "posted" =>
        \A p \in 0..(Len(player_stats) - 1) :
            Cardinality({i \in DropsOf(relevant_events, p) :
                            HandoffByHold(relevant_events, i)})
               <= player_stats[p + 1].handoffs

\* C32: a StartPrevent..StopPrevent interval [s, e] of a player earns no
\* goodprevent whenever a teammate's Grab has a tick t with s <= t <= e,
\* wherever that Grab stands among the events of equal tick: a player's
\* goodprevent is at most the sum of e - s over the intervals free of such a Grab.
C32_TeammateGrabWithholds ==
    pc = "posted" =>
        \A p \in 0..(Len(player_stats) - 1) :
            player_stats[p + 1].goodprevent <= PreventSum(relevant_events, p, 1, TRUE, FALSE, 0)

\* indices of the Grabs of the player of evs[i] before index i
OwnGrabsBefore(evs, i) ==
    { j \in 1..(i - 1) :
        evs[j].event_type = "Grab" /\ evs[j].player_index = evs[i].player_index }

Greatest(S) == CHOOSE x \in S : \A y \in S : x >= y

\* ticks from the most recent preceding Grab of the dropping player to the Drop at i
HoldBeforeDrop(evs, i) == evs[i].time - evs[Greatest(OwnGrabsBefore(evs, i))].time

\* a Capture by the team opposing the Drop at i follows it with tick <= T + 600
OpposingCaptureWithin(evs, i) ==
    \E k \in (i + 1)..Len(evs) :
        /\ evs[k].event_type = "Capture"
        /\ evs[k].team # evs[i].team
        /\ evs[k].time <= evs[i].time + 600

\* the Drop at i follows a hold below 120 ticks and an opposing Capture follows in time
FlaccidCredited(evs, i) ==
    /\ OwnGrabsBefore(evs, i) # {}
    /\ HoldBeforeDrop(evs, i) < 120
    /\ OpposingCaptureWithin(evs, i)

\* the Drop at i follows a hold of 120 ticks or more, or no opposing Capture follows in time
FlaccidExcluded(evs, i) ==
    \/ OwnGrabsBefore(evs, i) # {} /\ HoldBeforeDrop(evs, i) >= 120
    \/ ~OpposingCaptureWithin(evs, i)

\* C33: a Drop by P at tick T whose hold, T minus the tick of P's most recent
\* preceding Grab, is below 120 ticks earns P exactly one badflaccid if an
\* opposing Capture follows with tick <= T + 600 and none otherwise; a Drop
\* after a hold of 120 ticks or more earns none.  Per player: badflaccids lies
\* between the number of such credited Drops and the number of Drops not excluded.
C33_BadflaccidWindow ==
    pc = "posted" =>
        \A p \in 0..(Len(player_stats) - 1) :
            /\ Cardinality({i \in DropsOf(relevant_events, p) :
                               FlaccidCredited(relevant_events, i)})
                  <= player_stats[p + 1].badflaccids
            /\ player_stats[p + 1].badflaccids
                  <= Cardinality({i \in DropsOf(relevant_events, p) :
                                     ~FlaccidExcluded(relevant_events, i)})

\* a Drop 119 ticks after the player's latest Grab, with the opposing Capture
\* exactly 600 ticks later, was credited
C33_Witness ==
    /\ pc = "posted"
    /\ \E i \in DropsOf(relevant_events, 0) :
          /\ FlaccidCredited(relevant_events, i)
          /\ HoldBeforeDrop(relevant_events, i) = 119
          /\ \A k \in (i + 1)..Len(relevant_events) :
                relevant_events[k].event_type = "Capture" =>
                    relevant_events[k].time = relevant_events[i].time + 600
    /\ player_stats[1].badflaccids = 1

\* a Grab by a teammate of the grabber of evs[i] that precedes it with a tick
\* in [T - 180, T] and is not followed, before i, by that teammate's own Drop
\* or Capture
TeammateStillHolds(evs, i) ==
    \E j \in 1..(i - 1) :
        /\ evs[j].event_type = "Grab"
        /\ evs[j].team = evs[i].team
        /\ evs[j].player_index # evs[i].player_index
        /\ evs[j].time + 180 >= evs[i].time
        /\ evs[j].time <= evs[i].time
        /\ \A k \in (j + 1)..(i - 1) :
              evs[k].player_index = evs[j].player_index
                 => evs[k].event_type \notin {"Drop", "Capture"}

\* the grabber of evs[i] has no Grab, Capture or Drop after it with tick < T + 300
GrabSustained(evs, i) ==
    \A k \in (i + 1)..Len(evs) :
        (evs[k].player_index = evs[i].player_index /\ evs[k].time < evs[i].time + 300)
            => evs[k].event_type \notin {"Grab", "Capture", "Drop"}

\* C34: a Grab by P at tick T earns P one sparkedout exactly when no earlier
\* teammate Grab with tick in [T - 180, T] is still uninterrupted by that
\* teammate's Drop or Capture, and P has no Grab, Capture or Drop after it
\* with tick < T + 300; otherwise it earns none.
C34_SparkedoutExactly ==
    pc = "posted" =>
        \A p \in 0..(Len(player_stats) - 1) :
            player_stats[p + 1].sparkedouts =
                Cardinality({ i \in 1..Len(relevant_events) :
                                /\ relevant_events[i].event_type = "Grab"
                                /\ relevant_events[i].player_index = p
                                /\ ~TeammateStillHolds(relevant_events, i)
                                /\ GrabSustained(relevant_events, i) })

\* C35: while the stat engine replays a fused timeline built from decoded
\* player streams, a Grab never arrives for a player whose hold is open and a
\* StartPrevent never for a player whose prevent is open.
C35_NoDoubleOpen ==
    [][(pc = "replay" /\ idx <= Len(relevant_events) /\ idx' = idx + 1) =>
          /\ relevant_events[idx].event_type = "Grab"
                => player_stats[relevant_events[idx].player_index + 1].hold_start = None
          /\ relevant_events[idx].event_type = "StartPrevent"
                => player_stats[relevant_events[idx].player_index + 1].prevent_start = None]_vars

\* C36: a Capture by Red that leaves the differential <= 0, or by Blue that
\* leaves it >= 0, changes neither garbage_time_cap_diff nor any player's
\* garbage_time_caps, whatever its tick and the differential before it.
C36_GarbageOnlyWhenAhead ==
    [][(pc = "engine" /\ idx' = idx + 1 /\ relevant_events'[1].event_type = "Capture"
        /\ \/ relevant_events'[1].team = "Red" /\ cap_diff' <= 0
           \/ relevant_events'[1].team = "Blue" /\ cap_diff' >= 0)
       => /\ garbage_time_cap_diff' = garbage_time_cap_diff
          /\ \A p \in 1..Len(player_stats) :
                player_stats'[p].garbage_time_caps = player_stats[p].garbage_time_caps]_vars

\* Red captured at tick 19801 while four behind: garbage time by the clock
\* and the lead, but the capture leaves Red behind and is not counted
C36_Witness ==
    /\ pc = "engine" /\ idx = 1
    /\ relevant_events[1].event_type = "Capture" /\ relevant_events[1].time = 19801
    /\ relevant_events[1].team = "Red"
    /\ cap_diff = -3 /\ garbage_time_cap_diff = 0
    /\ player_stats[2].caps = 4 /\ player_stats[1].caps = 1
    /\ player_stats[1].garbage_time_caps = 0

\* C37: map_layout terminates for every finite buffer and every width >= 1:
\* no pass of its loop leaves the loop where it was, with the cursor and the
\* layout length modulo width unchanged and the loop guard still true.
C37_LayoutProgress ==
    [][(pc = "layout" /\ pc' = "layout" /\ Len(layout') = Len(layout) + 1) =>
          ~ /\ pos' = pos
            /\ LayoutLen(layout') % width = LayoutLen(layout) % width
            /\ LayoutGuard(data, pos', layout', width)]_vars

\* no element occurs twice in sq
NoDuplicates(sq) == \A i, j \in 1..Len(sq) : sq[i] = sq[j] => i = j

\* C38: at every point of the roster replay of process_ranked_match no player
\* index is on both rosters and no index appears twice in one roster.
C38_RostersDisjoint ==
    /\ NoDuplicates(red_team)
    /\ NoDuplicates(blue_team)
    /\ \A i \in 1..Len(red_team) : ~Contains(blue_team, red_team[i])

\* the replay has just processed an early Quit: the quitting player left the
\* roster, every other player who started on a team is still on one
C38_Witness ==
    /\ pc = "replay" /\ idx > 1
    /\ relevant_events[idx - 1].event_type = "Quit"
    /\ IsEarlyQuit(relevant_events[idx - 1].time, match_log.duration)
    /\ ~Contains(red_team, relevant_events[idx - 1].player_index)
    /\ ~Contains(blue_team, relevant_events[idx - 1].player_index)
    /\ Len(red_team) + Len(blue_team) = Len(match_log.players) - 1

\* the Capture events of the first n events of the timeline whose team is in T
CapturesIn(n, T) ==
    { k \in 1..n : relevant_events[k].event_type = "Capture" /\ relevant_events[k].team \in T }

\* the sum of a field over the stat records ps[1..n]
RECURSIVE SumField(_, _, _)
SumField(ps, field, n) == IF n = 0 THEN 0 ELSE ps[n][field] + SumField(ps, field, n - 1)

\* C39: after process_event has processed a prefix of the timeline, cap_diff
\* is the number of Captures by Red minus the number by Blue in the prefix,
\* the players' caps add up to the number of Captures in it, and
\* |garbage_time_cap_diff| is at most the sum of the players' garbage_time_caps.
C39_CapCounters ==
    pc = "post" =>
        /\ cap_diff = Cardinality(CapturesIn(idx, {"Red"})) - Cardinality(CapturesIn(idx, {"Blue"}))
        /\ SumField(player_stats, "caps", Len(player_stats))
              = Cardinality(CapturesIn(idx, {"Red", "Blue", "None"}))
        /\ Abs(garbage_time_cap_diff)
              <= SumField(player_stats, "garbage_time_caps", Len(player_stats))

\* three Red captures after tick 23400 and one by Blue were processed: the
\* third Red capture counted as garbage time
C39_Witness ==
    /\ pc = "post" /\ idx = 4
    /\ Cardinality(CapturesIn(idx, {"Red"})) = 3
    /\ Cardinality(CapturesIn(idx, {"Blue"})) = 1
    /\ cap_diff = 2 /\ garbage_time_cap_diff = 1
    /\ player_stats[1].garbage_time_caps = 1

\* the accumulated times of a records stat record lie in 0..limit
TimesWithin(r, limit) ==
    /\ 0 <= r.hold /\ r.hold <= limit
    /\ 0 <= r.prevent /\ r.prevent <= limit
    /\ 0 <= r.button /\ r.button <= limit

\* C40: no time accumulation of the records rule set subtracts a later tick
\* from an earlier one, in the full-game pass and in the first-8-minutes pass,
\* also when an event tick lies after the match duration: no subtraction
\* panics, and a player's hold, prevent and button time never exceed
\* min(cutoff, duration).
C40_NoBackwardSubtraction ==
    /\ ~panicked
    /\ pc \in {"post", "finalized", "posted"} =>
          \A p \in 1..Len(records.stats) :
              /\ TimesWithin(records.stats[p], PostDuration)
              /\ TimesWithin(records.first8.stats[p], MinOf(EIGHT_MINUTES, PostDuration))

====
